---- MODULE Spec2Model ----
(***************************************************************************)
(* stravadash: the Strava HTTP client (app/strava_api.py), the pagination *)
(* driver and the route handlers (app/routes/api.py) and the cache keys    *)
(* (app/cache.py), as state machines.                                      *)
(*                                                                         *)
(*   SpecClient : one call of StravaAPI._make_request, one action per      *)
(*                iteration of its retry loop.                             *)
(*   SpecFetch  : one run of fetch_all_activities, one action per          *)
(*                iteration of its page loop, the client answering         *)
(*                anything it can answer.                                  *)
(*   SpecSweep  : one run of fetch_all_activities against an upstream      *)
(*                that serves a fixed history newest first, bounded by     *)
(*                an exclusive before parameter.                           *)
(*   SpecKey    : calls of generate_cache_key, one action per call.        *)
(*   SpecRoute  : one athlete's requests to the /api routes, one action    *)
(*                per request handled, over a cache whose entries expire.  *)
(*   SpecStats  : one call of an aggregation function of app/stats.py on   *)
(*                a list of activity records, one action per function.     *)
(*   SpecSummary: one call of a calendar summary of app/stats.py, one      *)
(*                action per function.                                     *)
(*   SpecFilter : one call of filter_activities (app/utils.py).            *)
(*   SpecDates  : one call of parse_date_range (app/utils.py).             *)
(*   SpecShare  : two athletes' requests to the cached /api routes over    *)
(*                one cache, the lookup and the store of each request      *)
(*                being separate steps.                                    *)
(*   SpecAdmin  : two sessions' requests to the guarded routes and the     *)
(*                account operations of app/routes/admin.py over the       *)
(*                users table, one action per step of a request.           *)
(*   SpecOAuth  : google_authorize and google_callback requests in two     *)
(*                sessions, one action per request.                        *)
(*   SpecToken  : calls of get_valid_token as time passes, one action per  *)
(*                call.                                                    *)
(***************************************************************************)
EXTENDS Integers, Sequences, FiniteSets, TLC

VARIABLES
    \* ---- StravaAPI._make_request ----
    cpc,            \* "idle" | "running" | "done"
    max_retries,    \* the max_retries argument
    attempt,        \* the loop variable of `for attempt in range(max_retries)`
    trace,          \* what the upstream answered to each HTTP attempt so far
    waits,          \* the argument of every time.sleep() so far, in order
    outcome,        \* how the call ended: [exc, retry_after, message, code, body]
    \* ---- fetch_all_activities ----
    fpc,            \* "idle" | "loop" | "done"
    max_activities, \* the max_activities argument (NoCap for None)
    all_activities, \* the accumulated list, as runs of record numbers
    before,         \* the cursor (NoCursor for None)
    iteration,      \* the loop counter
    utc_offset,     \* the process's local UTC offset, in seconds
    requests,       \* how many times get_athlete_activities was called
    last_params,    \* the params of the latest call
    served,         \* how many records the upstream has sent in this run
    last_page,      \* the length of the latest page received
    all_full,       \* every page received so far held exactly 200 records
    oversized,      \* some page received held more than 200 records
    short_at,       \* the request answered by the first empty or short page
    cap_at,         \* the request after which the accumulation first met the cap
    all_dated,      \* every page so far ended in a well-formed start_date
    client_failed,  \* get_athlete_activities raised
    client_error,   \* the exception it raised ("none" while it has not)
    fresult,        \* how the run ended: [exc, list]
    \* ---- the upstream's activity history (SpecSweep) ----
    history,        \* records per start time, newest start time first
    cursors,        \* the before parameter of every page request so far
    \* ---- generate_cache_key (SpecKey) ----
    kcall,          \* the latest call: [called, prefix, athlete_id, kwargs, key]
    kprev,          \* the call before it
    \* ---- the route handlers (SpecRoute) ----
    cache,          \* the entries of the cache: [key, value, timeout]
    request,        \* the latest request and what its handler did
    response,       \* what the handler answered
    \* ---- the aggregation functions of app/stats.py (SpecStats) ----
    agg_call,       \* the latest call: [fn, activities]
    agg_result,     \* what it returned
    \* ---- the calendar summaries of app/stats.py (SpecSummary) ----
    sum_call,       \* the latest call: [fn, today, n, activities]
    sum_result,     \* the list of buckets it returned
    \* ---- filter_activities (SpecFilter) ----
    flt_call,       \* the latest call: [called, activities, filters, offset]
    flt_result,     \* the list it returned
    \* ---- parse_date_range (SpecDates) ----
    dr_call,        \* the latest call: [called, start, end, offset]
    dr_result,      \* the pair it returned
    \* ---- two athletes' requests over one cache (SpecShare) ----
    sh_cache,       \* the cache: a set of entries [key, value, timeout]
    sh_pending,     \* athlete -> the request that missed and is fetching
    sh_read,        \* athlete -> the keys read while serving the athlete
    sh_written,     \* athlete -> the keys written while serving the athlete
    sh_served,      \* athlete -> the values returned to the athlete
    \* ---- users, sessions and guarded requests (SpecAdmin) ----
    ad_users,       \* user id -> [exists, is_admin, is_disabled]
    ad_session,     \* session -> its user_id, NoUser when it has none
    ad_pc,          \* session -> the request it has in flight
    ad_overlap,     \* two requests have been in flight together
    \* ---- the Google OAuth round trip (SpecOAuth) ----
    oa_stored,      \* session -> its oauth_state, Missing when it has none
    oa_user,        \* session -> its user_id, NoUser when it has none
    oa_issued,      \* session -> the states google_authorize stored in it
    oa_last,        \* the latest callback: its session, parameters and outcome
    \* ---- get_valid_token over one user's stored tokens (SpecToken) ----
    tk_stored,      \* the row's access_token, refresh_token, expires_at
    tk_now,         \* int(time.time())
    tk_issued,      \* the refreshes the Strava token endpoint has granted
    tk_last         \* the latest call: the row and time it met, what it did

clientVars == <<cpc, max_retries, attempt, trace, waits, outcome>>
fetchVars == <<fpc, max_activities, all_activities, before, iteration,
               utc_offset, requests, last_params, served, last_page, all_full,
               oversized, short_at, cap_at, all_dated, client_failed,
               client_error, fresult>>
sweepVars == <<history, cursors>>
keyVars == <<kcall, kprev>>
routeVars == <<cache, request, response>>
aggVars == <<agg_call, agg_result>>
sumVars == <<sum_call, sum_result>>
fltVars == <<flt_call, flt_result>>
pureVars == <<aggVars, sumVars, fltVars>>
dateVars == <<dr_call, dr_result>>
shareVars == <<sh_cache, sh_pending, sh_read, sh_written, sh_served>>
adminVars == <<ad_users, ad_session, ad_pc, ad_overlap>>
oauthVars == <<oa_stored, oa_user, oa_issued, oa_last>>
tokenVars == <<tk_stored, tk_now, tk_issued, tk_last>>
lateVars == <<dateVars, shareVars, adminVars, oauthVars, tokenVars>>
vars == <<clientVars, fetchVars, sweepVars, keyVars, routeVars, pureVars,
          lateVars>>
earlyVars == <<clientVars, fetchVars, sweepVars, keyVars, routeVars, pureVars>>

\* What the actions of each part leave alone.
exceptClient == <<fetchVars, sweepVars, keyVars, routeVars, pureVars,
    lateVars>>
exceptFetch == <<clientVars, sweepVars, keyVars, routeVars, pureVars,
    lateVars>>
exceptSweep == <<clientVars, keyVars, routeVars, pureVars,
    lateVars>>
exceptKey == <<clientVars, fetchVars, sweepVars, routeVars, pureVars,
    lateVars>>
exceptRoute == <<clientVars, fetchVars, sweepVars, keyVars, pureVars,
    lateVars>>
exceptAgg == <<clientVars, fetchVars, sweepVars, keyVars, routeVars, sumVars, fltVars,
    lateVars>>
exceptSum == <<clientVars, fetchVars, sweepVars, keyVars, routeVars, aggVars, fltVars,
    lateVars>>
exceptFlt == <<clientVars, fetchVars, sweepVars, keyVars, routeVars, aggVars, sumVars,
    lateVars>>
exceptDate == <<earlyVars, shareVars, adminVars, oauthVars, tokenVars>>
exceptShare == <<earlyVars, dateVars, adminVars, oauthVars, tokenVars>>
exceptAdmin == <<earlyVars, dateVars, shareVars, oauthVars, tokenVars>>
exceptOAuth == <<earlyVars, dateVars, shareVars, adminVars, tokenVars>>
exceptToken == <<earlyVars, dateVars, shareVars, adminVars, oauthVars>>

(***************************************************************************)
(* Program constants.                                                      *)
(***************************************************************************)
MaxRetries == 3
DefaultRetryAfter == 60
PerPage == 200
MaxIterations == 100
UpstreamPerPageLimit == 200

(***************************************************************************)
(* Strings are sequences of one-character strings.                         *)
(***************************************************************************)
DigitChars == <<"0", "1", "2", "3", "4", "5", "6", "7", "8", "9">>

IsDigit(c) == \E i \in 1..10 : DigitChars[i] = c

DigitVal(c) == (CHOOSE i \in 1..10 : DigitChars[i] = c) - 1

RECURSIVE DigitsValue(_)
DigitsValue(s) ==
    IF Len(s) = 0 THEN 0
    ELSE 10 * DigitsValue(SubSeq(s, 1, Len(s) - 1)) + DigitVal(s[Len(s)])

\* int(str) on a string of the modelled alphabet (digits, letters, commas):
\* a non-empty run of digits is its decimal value, anything else raises
\* ValueError.
ParseInt(s) ==
    IF Len(s) > 0 /\ \A i \in 1..Len(s) : IsDigit(s[i])
    THEN [ok |-> TRUE, val |-> DigitsValue(s)]
    ELSE [ok |-> FALSE, val |-> 0]

\* str(n) for n >= 0, as in an f-string.
RECURSIVE Str(_)
Str(n) ==
    IF n < 10 THEN <<DigitChars[n + 1]>>
    ELSE Str(n \div 10) \o <<DigitChars[(n % 10) + 1]>>

\* str.split(","): the fields between the commas; "" gives [""].
RECURSIVE Split(_)
Split(s) ==
    IF \A i \in 1..Len(s) : s[i] # ","
    THEN <<s>>
    ELSE LET k == CHOOSE i \in 1..Len(s) :
                      s[i] = "," /\ \A j \in 1..(i - 1) : s[j] # ","
         IN <<SubSeq(s, 1, k - 1)>> \o Split(SubSeq(s, k + 1, Len(s)))

(***************************************************************************)
(* What the upstream can answer to one HTTP attempt.                       *)
(***************************************************************************)
NoHdr == [present |-> FALSE, value |-> <<>>]
Hdr(v) == [present |-> TRUE, value |-> v]

\* response.headers.get(name, default)
HeaderGet(h, default) == IF h.present THEN h.value ELSE default

RetryAfterHeaders ==
    {NoHdr, Hdr(<<"4", "5">>), Hdr(<<"0">>), Hdr(<<"W", "e", "d">>)}

RateHeaders == {NoHdr, Hdr(<<"1", ",", "2">>), Hdr(<<"7">>)}

Bodies == {"bodyA", "bodyB"}

Response(st, ra, lim, use, js, b) ==
    [kind |-> "response", status |-> st, retryAfter |-> ra,
     limit |-> lim, usage |-> use, json |-> js, body |-> b]

Failure(k) ==
    [kind |-> k, status |-> 0, retryAfter |-> NoHdr,
     limit |-> NoHdr, usage |-> NoHdr, json |-> FALSE, body |-> "none"]

PlainStatuses == {401, 403, 404, 500, 503}

WellFormedRate == Hdr(<<"1", ",", "2">>)

Upstream ==
    {Failure("timeout"), Failure("connection")}
    \cup {Response(st, NoHdr, NoHdr, NoHdr, FALSE, "none") : st \in PlainStatuses}
    \cup {Response(429, ra, NoHdr, NoHdr, FALSE, "none") : ra \in RetryAfterHeaders}
    \cup {Response(200, NoHdr, lim, use, TRUE, b) :
              lim \in RateHeaders, use \in RateHeaders, b \in Bodies}
    \cup {Response(200, NoHdr, lim, use, FALSE, "none") :
              lim \in RateHeaders, use \in RateHeaders}
    \cup {Response(304, NoHdr, WellFormedRate, WellFormedRate, TRUE, "bodyA")}

(***************************************************************************)
(* StravaAPI._make_request.                                                *)
(***************************************************************************)
NoOutcome ==
    [exc |-> "pending", retry_after |-> 0, message |-> "", code |-> <<>>,
     body |-> "none"]

Returned(b) ==
    [exc |-> "none", retry_after |-> 0, message |-> "", code |-> <<>>, body |-> b]

Raised(e, msg) ==
    [exc |-> e, retry_after |-> 0, message |-> msg, code |-> <<>>, body |-> "none"]

RaisedRateLimit(n) ==
    [exc |-> "RateLimitError", retry_after |-> n,
     message |-> "Rate limit exceeded. Please wait before making more requests.",
     code |-> <<>>, body |-> "none"]

\* StravaAPIError(f"API error: {status_code}"): the text, then the digits.
RaisedApiError(st) ==
    [exc |-> "StravaAPIError", retry_after |-> 0, message |-> "API error: ",
     code |-> Str(st), body |-> "none"]

\* One iteration ends the call (raise or return) or sleeps and goes on.
End(o) == [done |-> TRUE, sleep |-> 0, out |-> o]
Retry(secs) == [done |-> FALSE, sleep |-> secs, out |-> NoOutcome]

IsRateLimited(st) == st = 429

\* Faulty variant: the wrong status is taken for the authentication failure.
IsAuthFailureOn403(st) == st = 403

IsAuthFailure(st) == st = 401

\* Response.raise_for_status(): HTTPError for a 4xx or 5xx status.
RaisesForStatus(st) == 400 <= st /\ st < 600

\* Faulty variant: 4xx statuses are retried like 5xx.
IsServerErrorFrom400(st) == st >= 400

IsServerError(st) == st >= 500

IsLastAttempt(a, m) == a = m - 1

\* Faulty variant: a constant backoff.
TransportBackoffFlat(a) == 1

TransportBackoff(a) == 1 * (a + 1)

ServerErrorBackoff(a) == 2 * (a + 1)

\* `for attempt in range(max_retries)`
LoopContinues(a, m) == a < m

\* The rate-limit logging and the return of the decoded body.
OnSuccess(r) ==
    LET limit_15min == Split(HeaderGet(r.limit, <<>>))
        usage_15min == Split(HeaderGet(r.usage, <<>>))
    IN IF Len(limit_15min) > 0 /\ Len(usage_15min) > 0
          /\ (Len(usage_15min) < 2 \/ Len(limit_15min) < 2)
       THEN End(Raised("IndexError", "list index out of range"))
       ELSE IF ~r.json
            THEN End(Raised("JSONDecodeError", "invalid JSON"))
            ELSE End(Returned(r.body))

\* Faulty variant: a 429 is slept on and retried.
OnRateLimitedRetry(r) == Retry(DefaultRetryAfter)

OnRateLimited(r) ==
    IF r.retryAfter.present
    THEN LET n == ParseInt(r.retryAfter.value)
         IN IF n.ok THEN End(RaisedRateLimit(n.val))
            ELSE End(Raised("ValueError", "invalid literal for int()"))
    ELSE End(RaisedRateLimit(DefaultRetryAfter))

OnTransportFailure(r, a, m) ==
    IF IsLastAttempt(a, m)
    THEN End(Raised("StravaAPIError",
                    IF r.kind = "timeout"
                    THEN "Request timed out. Please try again."
                    ELSE "Connection error. Please check your internet connection."))
    ELSE Retry(TransportBackoff(a))

OnHTTPError(r, a, m) ==
    IF IsServerError(r.status)
    THEN IF IsLastAttempt(a, m)
         THEN End(Raised("StravaAPIError",
                  "Strava service is temporarily unavailable. Please try again later."))
         ELSE Retry(ServerErrorBackoff(a))
    ELSE End(RaisedApiError(r.status))

\* The body of the retry loop for attempt a and upstream answer r.
AttemptResult(r, a, m) ==
    IF r.kind # "response" THEN OnTransportFailure(r, a, m)
    ELSE IF IsRateLimited(r.status) THEN OnRateLimited(r)
    ELSE IF IsAuthFailure(r.status)
         THEN End(Raised("AuthenticationError",
                  "Authentication failed. Please reconnect your Strava account."))
    ELSE IF RaisesForStatus(r.status) THEN OnHTTPError(r, a, m)
    ELSE OnSuccess(r)

MakeRequestCall ==
    /\ cpc = "idle"
    /\ cpc' = "running"
    /\ max_retries' = MaxRetries
    /\ attempt' = 0
    /\ trace' = <<>>
    /\ waits' = <<>>
    /\ outcome' = NoOutcome
    /\ UNCHANGED exceptClient

MakeRequestAttempt ==
    /\ cpc = "running"
    /\ IF LoopContinues(attempt, max_retries)
       THEN \E r \in Upstream :
                LET res == AttemptResult(r, attempt, max_retries)
                IN /\ trace' = Append(trace, r)
                   /\ IF res.done
                      THEN /\ cpc' = "done"
                           /\ outcome' = res.out
                           /\ UNCHANGED <<attempt, waits>>
                      ELSE /\ waits' = Append(waits, res.sleep)
                           /\ attempt' = attempt + 1
                           /\ UNCHANGED <<cpc, outcome>>
       ELSE /\ cpc' = "done"
            /\ outcome' = Raised("StravaAPIError", "Maximum retries exceeded")
            /\ UNCHANGED <<attempt, trace, waits>>
    /\ UNCHANGED <<max_retries, exceptClient>>


(***************************************************************************)
(* Lists of activity records.  A record is named by its number in the      *)
(* order in which the upstream sent it during the run; a list is the       *)
(* sequence of its maximal runs <<lo, hi>> of consecutive numbers.         *)
(***************************************************************************)
RECURSIVE ListLen(_)
ListLen(l) ==
    IF l = <<>> THEN 0 ELSE (l[1][2] - l[1][1] + 1) + ListLen(Tail(l))

\* list.extend(page), page being <<>> or one run.
Extend(l, p) ==
    IF p = <<>> THEN l
    ELSE IF l # <<>> /\ l[Len(l)][2] + 1 = p[1][1]
         THEN SubSeq(l, 1, Len(l) - 1) \o <<<<l[Len(l)][1], p[1][2]>>>> \o Tail(p)
         ELSE l \o p

\* l[:n] for n >= 0.
RECURSIVE Prefix(_, _)
Prefix(l, n) ==
    IF n <= 0 \/ l = <<>> THEN <<>>
    ELSE LET size == l[1][2] - l[1][1] + 1
         IN IF size <= n
            THEN Extend(<<l[1]>>, Prefix(Tail(l), n - size))
            ELSE <<<<l[1][1], l[1][1] + n - 1>>>>

\* The records lo..hi as a list.
Records(lo, hi) == IF hi < lo THEN <<>> ELSE <<<<lo, hi>>>>

(***************************************************************************)
(* What get_athlete_activities can give to fetch_all_activities.           *)
(***************************************************************************)
NoCap == -1
NoCursor == -1
Omitted == -1

MaxStamp == 2
Stamps == {3600 * k : k \in 1..MaxStamp}
UtcOffsets == {-3600, 0, 3600}

\* Python truthiness of an optional integer.
Truthy(x) == x # -1 /\ x # 0

Min(a, b) == IF a < b THEN a ELSE b

\* The params dict of StravaAPI.get_athlete_activities.
ActivitiesParams(per_page, page, bef, aft) ==
    [per_page |-> Min(per_page, UpstreamPerPageLimit),
     page |-> page,
     before |-> IF Truthy(bef) THEN bef ELSE Omitted,
     after |-> IF Truthy(aft) THEN aft ELSE Omitted]

NoParams == [per_page |-> 0, page |-> 0, before |-> Omitted, after |-> Omitted]

\* The exceptions _make_request can end with.
ClientErrors ==
    {"RateLimitError", "AuthenticationError", "StravaAPIError",
     "IndexError", "ValueError", "JSONDecodeError"}

\* The start_date of the last record of a page: missing, a well-formed
\* "%Y-%m-%dT%H:%M:%SZ" string (given by its UTC epoch seconds), or a
\* string strptime rejects.
LastDates ==
    {[form |-> "absent", utc |-> 0], [form |-> "malformed", utc |-> 0]}
    \cup {[form |-> "valid", utc |-> t] : t \in Stamps}

PageLengths == {0, 50, PerPage - 1, PerPage, PerPage + 1}

\* int(datetime.strptime(s, fmt).timestamp()): the naive datetime is read
\* as local time.
CursorOf(utc, offset) == utc - offset

CapValues == {NoCap, 0, 1, PerPage - 1, PerPage, 250, 2 * PerPage}

(***************************************************************************)
(* fetch_all_activities.                                                   *)
(***************************************************************************)
\* Faulty variants: the ceiling off by one, either way.
WhileContinuesInclusive(it, max) == it <= max

WhileContinuesOneLess(it, max) == it < max - 1

WhileContinues(it, max) == it < max

\* Faulty variant: the page is compared with the default page size.
IsShortPageDefault30(n, per_page) == n < 30

IsShortPage(n, per_page) == n < per_page

CapReached(cap, len) == Truthy(cap) /\ len >= cap

FetchReturn(l) == [exc |-> "none", list |-> l]

\* Faulty variant: an exception raised inside the loop is swallowed and the
\* records accumulated so far are returned.
FetchRaisePartial(e) == [exc |-> "none", list |-> all_activities]

\* An exception raised inside the loop leaves the function: it has no
\* try statement, so the caller gets the exception and no list.
FetchRaise(e) == [exc |-> e, list |-> <<>>]

\* The function is entered with max_activities = cap, in a process of some
\* time zone.
FetchEntry(cap) ==
    /\ fpc = "idle"
    /\ max_activities' = cap
    /\ fpc' = "loop"
    /\ all_activities' = <<>>
    /\ before' = NoCursor
    /\ iteration' = 0
    /\ \E offset \in UtcOffsets : utc_offset' = offset
    /\ UNCHANGED <<requests, last_params, served, last_page,
                   all_full, oversized, short_at, cap_at, all_dated,
                   client_failed, client_error, fresult>>

FetchCall ==
    /\ \E cap \in CapValues : FetchEntry(cap)
    /\ UNCHANGED exceptFetch

\* The page loop's body once get_athlete_activities returned the list
\* page, whose last record has start_date d.
FetchBody(page, d) ==
    LET n == ListLen(page)
        acc == Extend(all_activities, page)
        nreq == requests + 1
    IN /\ served' = served + n
       /\ last_page' = n
       /\ all_full' = (all_full /\ n = 200)
       /\ oversized' = (oversized \/ n > 200)
       /\ all_dated' = (all_dated /\ d.form = "valid")
       /\ UNCHANGED <<client_failed, client_error>>
       /\ short_at' = IF short_at = 0 /\ n < 200 THEN nreq ELSE short_at
       /\ cap_at' = IF cap_at = 0 /\ n > 0 /\ max_activities # NoCap
                       /\ ListLen(acc) >= max_activities
                    THEN nreq ELSE cap_at
       /\ IF n = 0
          THEN /\ fpc' = "done"
               /\ fresult' = FetchReturn(all_activities)
               /\ UNCHANGED <<all_activities, iteration, before>>
          ELSE /\ iteration' = iteration + 1
               /\ IF CapReached(max_activities, ListLen(acc))
                  THEN /\ all_activities' = Prefix(acc, max_activities)
                       /\ fpc' = "done"
                       /\ fresult' = FetchReturn(all_activities')
                       /\ UNCHANGED before
                  ELSE /\ all_activities' = acc
                       /\ IF IsShortPage(n, PerPage) \/ d.form = "absent"
                          THEN /\ fpc' = "done"
                               /\ fresult' = FetchReturn(acc)
                               /\ UNCHANGED before
                          ELSE IF d.form = "malformed"
                               THEN /\ fpc' = "done"
                                    /\ fresult' = FetchRaise("ValueError")
                                    /\ UNCHANGED before
                               ELSE /\ before' = CursorOf(d.utc, utc_offset)
                                    /\ UNCHANGED <<fpc, fresult>>

\* The same, the page being the next n records the upstream sends.
FetchPage(n, d) == FetchBody(Records(served + 1, served + n), d)

FetchStep ==
    /\ fpc = "loop"
    /\ IF WhileContinues(iteration, MaxIterations)
       THEN /\ requests' = requests + 1
            /\ last_params' = ActivitiesParams(PerPage, 1, before, NoCursor)
            /\ \/ \E e \in ClientErrors :
                      /\ fpc' = "done"
                      /\ fresult' = FetchRaise(e)
                      /\ client_failed' = TRUE
                      /\ client_error' = e
                      /\ UNCHANGED <<all_activities, before, iteration, served,
                                     last_page, all_full, oversized, short_at,
                                     cap_at, all_dated>>
               \/ \E n \in PageLengths, d \in LastDates :
                      /\ n = 0 => d.form = "valid"
                      /\ FetchPage(n, d)
       ELSE /\ fpc' = "done"
            /\ fresult' = FetchReturn(all_activities)
            /\ UNCHANGED <<all_activities, before, iteration, requests,
                           last_params, served, last_page, all_full, oversized,
                           short_at, cap_at, all_dated, client_failed,
                           client_error>>
    /\ UNCHANGED <<max_activities, utc_offset>>
    /\ UNCHANGED exceptFetch

(***************************************************************************)
(* fetch_all_activities against an upstream that holds a history.  The     *)
(* history gives, for each of MaxSlots start times an hour apart, how many *)
(* records have that start time; slot 1 is the newest.  A record is named  *)
(* by its position in the history, newest first.                           *)
(***************************************************************************)
MaxSlots == 3
SlotCounts == {0, 1, PerPage - 1, PerPage, PerPage + 1}
Histories == [1..MaxSlots -> SlotCounts]
NoHistory == [k \in 1..MaxSlots |-> 0]

\* The start time of the records of slot k, in UTC epoch seconds.
SlotTime(k) == 3600 * (MaxSlots + 1 - k)

\* How many records the slots 1..k hold.
RECURSIVE UpTo(_, _)
UpTo(h, k) == IF k = 0 THEN 0 ELSE h[k] + UpTo(h, k - 1)

TotalRecords(h) == UpTo(h, MaxSlots)

\* The slot of the record at position p.
SlotOf(h, p) == CHOOSE k \in 1..MaxSlots : UpTo(h, k - 1) < p /\ p <= UpTo(h, k)

\* GET /athlete/activities: the records that started before params.before
\* (exclusive), newest first, at most params.per_page of them.
UpstreamPage(h, params) ==
    LET excluded == {k \in 1..MaxSlots :
                        params.before # Omitted /\ SlotTime(k) >= params.before}
        skip == IF excluded = {} THEN 0
                ELSE UpTo(h, CHOOSE k \in excluded : \A j \in excluded : j <= k)
    IN Records(skip + 1, Min(TotalRecords(h), skip + params.per_page))

\* activities[-1].get('start_date') of a page of the history.
LastDate(h, page) ==
    IF page = <<>> THEN [form |-> "valid", utc |-> 0]
    ELSE [form |-> "valid", utc |-> SlotTime(SlotOf(h, page[Len(page)][2]))]

SweepCaps == {NoCap, PerPage + 50}

SweepCall ==
    /\ \E cap \in SweepCaps : FetchEntry(cap)
    /\ \E h \in Histories : history' = h
    /\ cursors' = <<>>
    /\ UNCHANGED exceptSweep

SweepStep ==
    /\ fpc = "loop"
    /\ IF WhileContinues(iteration, MaxIterations)
       THEN LET params == ActivitiesParams(PerPage, 1, before, NoCursor)
                page == UpstreamPage(history, params)
            IN /\ requests' = requests + 1
               /\ last_params' = params
               /\ cursors' = Append(cursors, params.before)
               /\ FetchBody(page, LastDate(history, page))
       ELSE /\ fpc' = "done"
            /\ fresult' = FetchReturn(all_activities)
            /\ UNCHANGED <<all_activities, before, iteration, requests,
                           last_params, served, last_page, all_full, oversized,
                           short_at, cap_at, all_dated, client_failed,
                           client_error, cursors>>
    /\ UNCHANGED <<max_activities, utc_offset, history>>
    /\ UNCHANGED exceptSweep

(***************************************************************************)
(* Cache keys (app/cache.py).  Keyword arguments are a sequence of         *)
(* <<name, value>> pairs in the order they were passed; names and keys are *)
(* strings, values are integers.                                           *)
(***************************************************************************)
S_strava == <<"s", "t", "r", "a", "v", "a">>
S_activities == <<"a", "c", "t", "i", "v", "i", "t", "i", "e", "s">>
S_activity == <<"a", "c", "t", "i", "v", "i", "t", "y">>
S_stats == <<"s", "t", "a", "t", "s">>
S_page == <<"p", "a", "g", "e">>
S_per_page == <<"p", "e", "r", "_", "p", "a", "g", "e">>
S_activity_id == <<"a", "c", "t", "i", "v", "i", "t", "y", "_", "i", "d">>
S_a == <<"a">>
S_b == <<"b">>

\* The characters of the names, in code point order.
CodeOrder ==
    <<"_", "a", "b", "c", "d", "e", "f", "g", "h", "i", "j", "k", "l", "m",
      "n", "o", "p", "q", "r", "s", "t", "u", "v", "w", "x", "y", "z">>

Ord(c) == CHOOSE i \in 1..Len(CodeOrder) : CodeOrder[i] = c

\* s < t for str.
RECURSIVE StrLess(_, _)
StrLess(s, t) ==
    IF t = <<>> THEN FALSE
    ELSE IF s = <<>> THEN TRUE
    ELSE IF Head(s) = Head(t) THEN StrLess(Tail(s), Tail(t))
    ELSE Ord(Head(s)) < Ord(Head(t))

\* (n1, v1) < (n2, v2) for tuples.
ItemLess(x, y) == StrLess(x[1], y[1]) \/ (x[1] = y[1] /\ x[2] < y[2])

RECURSIVE InsertItem(_, _)
InsertItem(x, l) ==
    IF l = <<>> THEN <<x>>
    ELSE IF ItemLess(x, Head(l)) THEN <<x>> \o l
    ELSE <<Head(l)>> \o InsertItem(x, Tail(l))

\* Faulty variant: the items are left in the order they were passed.
Unsorted(kwargs) == kwargs

\* sorted(kwargs.items())
RECURSIVE Sorted(_)
Sorted(kwargs) ==
    IF kwargs = <<>> THEN <<>>
    ELSE InsertItem(Head(kwargs), Sorted(Tail(kwargs)))

\* json.dumps of one (name, value) tuple: ["name", value]
JsonItem(x) == <<"[", "\"">> \o x[1] \o <<"\"", ",", " ">> \o Str(x[2]) \o <<"]">>

RECURSIVE JsonJoin(_)
JsonJoin(items) ==
    IF items = <<>> THEN <<>>
    ELSE IF Len(items) = 1 THEN JsonItem(items[1])
    ELSE JsonItem(items[1]) \o <<",", " ">> \o JsonJoin(Tail(items))

\* json.dumps(items, sort_keys=True) of a list of tuples.
JsonDumps(items) == <<"[">> \o JsonJoin(items) \o <<"]">>

\* hashlib.md5(s.encode()).hexdigest(), for every string the parameter sets
\* below can give.
Md5Table == {
    \* md5([]) = d751713988987e9331980363e24189ce
    <<<<"[", "]">>,
      <<"d", "7", "5", "1", "7", "1", "3", "9", "8", "8", "9", "8", "7", "e", "9", "3", "3", "1", "9", "8", "0", "3", "6", "3", "e", "2", "4", "1", "8", "9", "c", "e">>>>,
    \* md5([['a', 1]]) = d0c276e87e0163141b9eed7fd879e32b
    <<<<"[", "[", "\"", "a", "\"", ",", " ", "1", "]", "]">>,
      <<"d", "0", "c", "2", "7", "6", "e", "8", "7", "e", "0", "1", "6", "3", "1", "4", "1", "b", "9", "e", "e", "d", "7", "f", "d", "8", "7", "9", "e", "3", "2", "b">>>>,
    \* md5([['a', 2]]) = 44703a2b75af64e930f98dece1e49f4b
    <<<<"[", "[", "\"", "a", "\"", ",", " ", "2", "]", "]">>,
      <<"4", "4", "7", "0", "3", "a", "2", "b", "7", "5", "a", "f", "6", "4", "e", "9", "3", "0", "f", "9", "8", "d", "e", "c", "e", "1", "e", "4", "9", "f", "4", "b">>>>,
    \* md5([['b', 1]]) = 1550a081785ab02e83abf25678ff8038
    <<<<"[", "[", "\"", "b", "\"", ",", " ", "1", "]", "]">>,
      <<"1", "5", "5", "0", "a", "0", "8", "1", "7", "8", "5", "a", "b", "0", "2", "e", "8", "3", "a", "b", "f", "2", "5", "6", "7", "8", "f", "f", "8", "0", "3", "8">>>>,
    \* md5([['b', 2]]) = 226664e3b3c9428476472d4817820e95
    <<<<"[", "[", "\"", "b", "\"", ",", " ", "2", "]", "]">>,
      <<"2", "2", "6", "6", "6", "4", "e", "3", "b", "3", "c", "9", "4", "2", "8", "4", "7", "6", "4", "7", "2", "d", "4", "8", "1", "7", "8", "2", "0", "e", "9", "5">>>>,
    \* md5([['a', 1], ['b', 1]]) = b94904ae54e5c4fba00a66f67997af4a
    <<<<"[", "[", "\"", "a", "\"", ",", " ", "1", "]", ",", " ", "[", "\"", "b", "\"", ",", " ", "1", "]", "]">>,
      <<"b", "9", "4", "9", "0", "4", "a", "e", "5", "4", "e", "5", "c", "4", "f", "b", "a", "0", "0", "a", "6", "6", "f", "6", "7", "9", "9", "7", "a", "f", "4", "a">>>>,
    \* md5([['b', 1], ['a', 1]]) = 80a88cd3d66d5e5a107722938291fcf7
    <<<<"[", "[", "\"", "b", "\"", ",", " ", "1", "]", ",", " ", "[", "\"", "a", "\"", ",", " ", "1", "]", "]">>,
      <<"8", "0", "a", "8", "8", "c", "d", "3", "d", "6", "6", "d", "5", "e", "5", "a", "1", "0", "7", "7", "2", "2", "9", "3", "8", "2", "9", "1", "f", "c", "f", "7">>>>,
    \* md5([['a', 1], ['b', 2]]) = 406ad83146c34c04e727366551345608
    <<<<"[", "[", "\"", "a", "\"", ",", " ", "1", "]", ",", " ", "[", "\"", "b", "\"", ",", " ", "2", "]", "]">>,
      <<"4", "0", "6", "a", "d", "8", "3", "1", "4", "6", "c", "3", "4", "c", "0", "4", "e", "7", "2", "7", "3", "6", "6", "5", "5", "1", "3", "4", "5", "6", "0", "8">>>>,
    \* md5([['b', 2], ['a', 1]]) = 927690bf0139593e361588067d621c94
    <<<<"[", "[", "\"", "b", "\"", ",", " ", "2", "]", ",", " ", "[", "\"", "a", "\"", ",", " ", "1", "]", "]">>,
      <<"9", "2", "7", "6", "9", "0", "b", "f", "0", "1", "3", "9", "5", "9", "3", "e", "3", "6", "1", "5", "8", "8", "0", "6", "7", "d", "6", "2", "1", "c", "9", "4">>>>,
    \* md5([['a', 2], ['b', 1]]) = ae4db2fabfdf11dd381d8b64490c95a8
    <<<<"[", "[", "\"", "a", "\"", ",", " ", "2", "]", ",", " ", "[", "\"", "b", "\"", ",", " ", "1", "]", "]">>,
      <<"a", "e", "4", "d", "b", "2", "f", "a", "b", "f", "d", "f", "1", "1", "d", "d", "3", "8", "1", "d", "8", "b", "6", "4", "4", "9", "0", "c", "9", "5", "a", "8">>>>,
    \* md5([['b', 1], ['a', 2]]) = ce3b6e54576f014b87e9a742bc9dd4f3
    <<<<"[", "[", "\"", "b", "\"", ",", " ", "1", "]", ",", " ", "[", "\"", "a", "\"", ",", " ", "2", "]", "]">>,
      <<"c", "e", "3", "b", "6", "e", "5", "4", "5", "7", "6", "f", "0", "1", "4", "b", "8", "7", "e", "9", "a", "7", "4", "2", "b", "c", "9", "d", "d", "4", "f", "3">>>>,
    \* md5([['a', 2], ['b', 2]]) = 1486c83c3c78bad97b0ac2cbda4348cb
    <<<<"[", "[", "\"", "a", "\"", ",", " ", "2", "]", ",", " ", "[", "\"", "b", "\"", ",", " ", "2", "]", "]">>,
      <<"1", "4", "8", "6", "c", "8", "3", "c", "3", "c", "7", "8", "b", "a", "d", "9", "7", "b", "0", "a", "c", "2", "c", "b", "d", "a", "4", "3", "4", "8", "c", "b">>>>,
    \* md5([['b', 2], ['a', 2]]) = 70dd0cdaadbd4a84ca7acbed32583bb2
    <<<<"[", "[", "\"", "b", "\"", ",", " ", "2", "]", ",", " ", "[", "\"", "a", "\"", ",", " ", "2", "]", "]">>,
      <<"7", "0", "d", "d", "0", "c", "d", "a", "a", "d", "b", "d", "4", "a", "8", "4", "c", "a", "7", "a", "c", "b", "e", "d", "3", "2", "5", "8", "3", "b", "b", "2">>>>,
    \* md5([['page', 1], ['per_page', 30]]) = f3f0444bc300b9dcd21d115dd443119e
    <<<<"[", "[", "\"", "p", "a", "g", "e", "\"", ",", " ", "1", "]", ",", " ", "[", "\"", "p", "e", "r", "_", "p", "a", "g", "e", "\"", ",", " ", "3", "0", "]", "]">>,
      <<"f", "3", "f", "0", "4", "4", "4", "b", "c", "3", "0", "0", "b", "9", "d", "c", "d", "2", "1", "d", "1", "1", "5", "d", "d", "4", "4", "3", "1", "1", "9", "e">>>>,
    \* md5([['per_page', 30], ['page', 1]]) = b32a7e1ea07a8d9264584acb91ae06c3
    <<<<"[", "[", "\"", "p", "e", "r", "_", "p", "a", "g", "e", "\"", ",", " ", "3", "0", "]", ",", " ", "[", "\"", "p", "a", "g", "e", "\"", ",", " ", "1", "]", "]">>,
      <<"b", "3", "2", "a", "7", "e", "1", "e", "a", "0", "7", "a", "8", "d", "9", "2", "6", "4", "5", "8", "4", "a", "c", "b", "9", "1", "a", "e", "0", "6", "c", "3">>>>,
    \* md5([['page', 1], ['per_page', 200]]) = 03703fe2bdea1c8f6ccb95d0c87beb2f
    <<<<"[", "[", "\"", "p", "a", "g", "e", "\"", ",", " ", "1", "]", ",", " ", "[", "\"", "p", "e", "r", "_", "p", "a", "g", "e", "\"", ",", " ", "2", "0", "0", "]", "]">>,
      <<"0", "3", "7", "0", "3", "f", "e", "2", "b", "d", "e", "a", "1", "c", "8", "f", "6", "c", "c", "b", "9", "5", "d", "0", "c", "8", "7", "b", "e", "b", "2", "f">>>>,
    \* md5([['per_page', 200], ['page', 1]]) = ef1992ee937aa6834cf7636e52527068
    <<<<"[", "[", "\"", "p", "e", "r", "_", "p", "a", "g", "e", "\"", ",", " ", "2", "0", "0", "]", ",", " ", "[", "\"", "p", "a", "g", "e", "\"", ",", " ", "1", "]", "]">>,
      <<"e", "f", "1", "9", "9", "2", "e", "e", "9", "3", "7", "a", "a", "6", "8", "3", "4", "c", "f", "7", "6", "3", "6", "e", "5", "2", "5", "2", "7", "0", "6", "8">>>>,
    \* md5([['page', 2], ['per_page', 30]]) = 2b72c72416eec4d76c563843989b327e
    <<<<"[", "[", "\"", "p", "a", "g", "e", "\"", ",", " ", "2", "]", ",", " ", "[", "\"", "p", "e", "r", "_", "p", "a", "g", "e", "\"", ",", " ", "3", "0", "]", "]">>,
      <<"2", "b", "7", "2", "c", "7", "2", "4", "1", "6", "e", "e", "c", "4", "d", "7", "6", "c", "5", "6", "3", "8", "4", "3", "9", "8", "9", "b", "3", "2", "7", "e">>>>,
    \* md5([['per_page', 30], ['page', 2]]) = a738e6df343fb28add8a32d7f7b979be
    <<<<"[", "[", "\"", "p", "e", "r", "_", "p", "a", "g", "e", "\"", ",", " ", "3", "0", "]", ",", " ", "[", "\"", "p", "a", "g", "e", "\"", ",", " ", "2", "]", "]">>,
      <<"a", "7", "3", "8", "e", "6", "d", "f", "3", "4", "3", "f", "b", "2", "8", "a", "d", "d", "8", "a", "3", "2", "d", "7", "f", "7", "b", "9", "7", "9", "b", "e">>>>,
    \* md5([['page', 2], ['per_page', 200]]) = 86c9e5f6e7af150f3caab9f1b00507bd
    <<<<"[", "[", "\"", "p", "a", "g", "e", "\"", ",", " ", "2", "]", ",", " ", "[", "\"", "p", "e", "r", "_", "p", "a", "g", "e", "\"", ",", " ", "2", "0", "0", "]", "]">>,
      <<"8", "6", "c", "9", "e", "5", "f", "6", "e", "7", "a", "f", "1", "5", "0", "f", "3", "c", "a", "a", "b", "9", "f", "1", "b", "0", "0", "5", "0", "7", "b", "d">>>>,
    \* md5([['per_page', 200], ['page', 2]]) = 5022d8480503d9dc8f7f1ef2a5a9bba9
    <<<<"[", "[", "\"", "p", "e", "r", "_", "p", "a", "g", "e", "\"", ",", " ", "2", "0", "0", "]", ",", " ", "[", "\"", "p", "a", "g", "e", "\"", ",", " ", "2", "]", "]">>,
      <<"5", "0", "2", "2", "d", "8", "4", "8", "0", "5", "0", "3", "d", "9", "d", "c", "8", "f", "7", "f", "1", "e", "f", "2", "a", "5", "a", "9", "b", "b", "a", "9">>>>,
    \* md5([['activity_id', 101]]) = 03431520da6635d2a7f45fe74eccf9d0
    <<<<"[", "[", "\"", "a", "c", "t", "i", "v", "i", "t", "y", "_", "i", "d", "\"", ",", " ", "1", "0", "1", "]", "]">>,
      <<"0", "3", "4", "3", "1", "5", "2", "0", "d", "a", "6", "6", "3", "5", "d", "2", "a", "7", "f", "4", "5", "f", "e", "7", "4", "e", "c", "c", "f", "9", "d", "0">>>>,
    \* md5([['activity_id', 102]]) = 192c367342a6a3dbf81738f0e6873098
    <<<<"[", "[", "\"", "a", "c", "t", "i", "v", "i", "t", "y", "_", "i", "d", "\"", ",", " ", "1", "0", "2", "]", "]">>,
      <<"1", "9", "2", "c", "3", "6", "7", "3", "4", "2", "a", "6", "a", "3", "d", "b", "f", "8", "1", "7", "3", "8", "f", "0", "e", "6", "8", "7", "3", "0", "9", "8">>>>
}

Md5Hex(s) == (CHOOSE e \in Md5Table : e[1] = s)[2]

HashLength == 8

\* Faulty variant: the athlete is left out of the key.
GenerateCacheKeyNoAthlete(prefix, athlete_id, kwargs) ==
    S_strava \o <<":">> \o prefix \o <<":">>
        \o SubSeq(Md5Hex(JsonDumps(Sorted(kwargs))), 1, HashLength)

\* Faulty variant: the prefix is left out of the key.
GenerateCacheKeyNoPrefix(prefix, athlete_id, kwargs) ==
    S_strava \o <<":">> \o Str(athlete_id) \o <<":">>
        \o SubSeq(Md5Hex(JsonDumps(Sorted(kwargs))), 1, HashLength)

\* generate_cache_key(prefix, athlete_id, **kwargs)
generate_cache_key(prefix, athlete_id, kwargs) ==
    LET params_str == JsonDumps(Sorted(kwargs))
        params_hash == SubSeq(Md5Hex(params_str), 1, HashLength)
    IN S_strava \o <<":">> \o Str(athlete_id) \o <<":">> \o prefix
           \o <<":">> \o params_hash

get_activities_cache_key(athlete_id, params) ==
    generate_cache_key(S_activities, athlete_id, params)

get_activity_cache_key(athlete_id, activity_id) ==
    generate_cache_key(S_activity, athlete_id, <<<<S_activity_id, activity_id>>>>)

get_stats_cache_key(athlete_id) == generate_cache_key(S_stats, athlete_id, <<>>)

(***************************************************************************)
(* The route handlers of app/routes/api.py, one athlete's requests.        *)
(* An activity is named by its id; the upstream holds two, newest first.   *)
(***************************************************************************)
RouteAthlete == 7
DefaultPerPage == 30
SecondsPerDay == 86400
EndOfDay == 86399
MetresPerKm == 1000

T_Run == "Run"
T_Ride == "Ride"
N_AmRun == <<"A", "M", " ", "R", "u", "n">>
N_Commute == <<"C", "o", "m", "m", "u", "t", "e">>
N_LongRun == <<"L", "o", "n", "g", " ", "r", "u", "n">>
Q_RUN == <<"R", "U", "N">>

\* The activity with id i: type, start day, distance in metres, name.  It
\* starts at noon UTC of its day.
Activity(i) ==
    IF i = 101
    THEN [id |-> 101, type |-> T_Run, day |-> 10, distance |-> 5000,
          name |-> N_AmRun]
    ELSE IF i = 102
    THEN [id |-> 102, type |-> T_Ride, day |-> 20, distance |-> 20000,
          name |-> N_Commute]
    ELSE [id |-> 103, type |-> T_Run, day |-> 20, distance |-> 20000,
          name |-> N_LongRun]

StartUtc(i) == Activity(i).day * SecondsPerDay + (SecondsPerDay \div 2)

UpstreamActivities == <<102, 101>>

\* str.lower()
UpperLetters ==
    <<"A", "B", "C", "D", "E", "F", "G", "H", "I", "J", "K", "L", "M",
      "N", "O", "P", "Q", "R", "S", "T", "U", "V", "W", "X", "Y", "Z">>
LowerLetters ==
    <<"a", "b", "c", "d", "e", "f", "g", "h", "i", "j", "k", "l", "m",
      "n", "o", "p", "q", "r", "s", "t", "u", "v", "w", "x", "y", "z">>

LowerChar(c) ==
    IF \E i \in 1..26 : UpperLetters[i] = c
    THEN LowerLetters[CHOOSE i \in 1..26 : UpperLetters[i] = c]
    ELSE c

Lower(s) == [i \in 1..Len(s) |-> LowerChar(s[i])]

\* q in s, for str.
Contains(q, s) ==
    \E i \in 0..(Len(s) - Len(q)) : SubSeq(s, i + 1, i + Len(q)) = q

\* A query-string date: absent, a "%Y-%m-%d" string (given by its day
\* number), or a string strptime rejects.
NoDate == [form |-> "absent", day |-> 0]
BadDate == [form |-> "malformed", day |-> 0]
Day(d) == [form |-> "valid", day |-> d]

\* A query string's filters; Omitted where the parameter is not given.
NoText == ""
Filters(ty, sd, ed, mn, mx, q) ==
    [type |-> ty, start_date |-> sd, end_date |-> ed, min_distance |-> mn,
     max_distance |-> mx, search |-> q]

NoFilters == Filters(NoText, NoDate, NoDate, Omitted, Omitted, <<>>)

FilterSets ==
    {NoFilters,
     Filters(T_Run, NoDate, NoDate, Omitted, Omitted, <<>>),
     Filters(NoText, Day(15), NoDate, Omitted, Omitted, <<>>),
     Filters(NoText, NoDate, Day(15), Omitted, Omitted, <<>>),
     Filters(NoText, BadDate, Day(15), Omitted, Omitted, <<>>),
     Filters(NoText, NoDate, NoDate, 0, Omitted, <<>>),
     Filters(NoText, NoDate, NoDate, 10, Omitted, <<>>),
     Filters(NoText, NoDate, NoDate, Omitted, 0, <<>>),
     Filters(NoText, NoDate, NoDate, Omitted, 10, <<>>),
     Filters(NoText, NoDate, NoDate, Omitted, Omitted, Q_RUN),
     Filters(T_Run, Day(5), Day(15), 0, 10, Q_RUN)}

ParseDateRangeExclusiveEnd(sd, ed, offset) ==
    IF sd.form = "malformed" \/ ed.form = "malformed"
    THEN <<Omitted, Omitted>>
    ELSE <<IF sd.form = "valid"
           THEN sd.day * SecondsPerDay - offset ELSE Omitted,
           IF ed.form = "valid"
           THEN ed.day * SecondsPerDay - offset ELSE Omitted>>

ParseDateRangeEachAlone(sd, ed, offset) ==
    <<IF sd.form = "valid" THEN sd.day * SecondsPerDay - offset ELSE Omitted,
      IF ed.form = "valid"
      THEN ed.day * SecondsPerDay - offset + EndOfDay ELSE Omitted>>

\* parse_date_range: <<start_timestamp, end_timestamp>>, Omitted for None.
\* A naive datetime's timestamp() is taken in local time.
parse_date_range(sd, ed, offset) ==
    IF sd.form = "malformed" \/ ed.form = "malformed"
    THEN <<Omitted, Omitted>>
    ELSE <<IF sd.form = "valid"
           THEN sd.day * SecondsPerDay - offset ELSE Omitted,
           IF ed.form = "valid"
           THEN ed.day * SecondsPerDay - offset + EndOfDay ELSE Omitted>>

\* GET /athlete/activities with params: the athlete's activities after and
\* before the given times, newest first, the page-th page of per_page.
UpstreamList(params) ==
    LET InRange(i) ==
            /\ params.after # Omitted => StartUtc(i) > params.after
            /\ params.before # Omitted => StartUtc(i) < params.before
        matching == SelectSeq(UpstreamActivities, InRange)
        lo == (params.page - 1) * params.per_page + 1
    IN SubSeq(matching, lo, Min(Len(matching), lo + params.per_page - 1))

\* Python truthiness of an optional number given as km: None and 0 are false.
\* value * 1000 if value else None
KmToMetres(v) == IF Truthy(v) THEN v * MetresPerKm ELSE Omitted

FilterActivitiesEachOnInput(activities, activity_type, start_date, end_date, min_distance, max_distance, search_query, offset) ==
    LET ByType(i) == Activity(i).type = activity_type
        ByDate(i) ==
            /\ ~Truthy(start_date) \/ CursorOf(StartUtc(i), offset) >= start_date
            /\ ~Truthy(end_date) \/ CursorOf(StartUtc(i), offset) <= end_date
        ByMin(i) == Activity(i).distance >= min_distance
        ByMax(i) == Activity(i).distance <= max_distance
        ByName(i) == Contains(Lower(search_query), Lower(Activity(i).name))
        f1 == IF activity_type # NoText
              THEN SelectSeq(activities, ByType) ELSE activities
        f2 == IF Truthy(start_date) \/ Truthy(end_date)
              THEN SelectSeq(activities, ByDate) ELSE f1
        f3 == IF min_distance # Omitted THEN SelectSeq(activities, ByMin) ELSE f2
        f4 == IF max_distance # Omitted THEN SelectSeq(activities, ByMax) ELSE f3
    IN IF search_query # <<>> THEN SelectSeq(activities, ByName) ELSE f4

\* filter_activities; the optional arguments are Omitted (NoText, <<>>) for
\* None.
filter_activities(activities, activity_type, start_date, end_date, min_distance, max_distance, search_query, offset) ==
    LET ByType(i) == Activity(i).type = activity_type
        ByDate(i) ==
            /\ ~Truthy(start_date) \/ CursorOf(StartUtc(i), offset) >= start_date
            /\ ~Truthy(end_date) \/ CursorOf(StartUtc(i), offset) <= end_date
        ByMin(i) == Activity(i).distance >= min_distance
        ByMax(i) == Activity(i).distance <= max_distance
        ByName(i) == Contains(Lower(search_query), Lower(Activity(i).name))
        f1 == IF activity_type # NoText
              THEN SelectSeq(activities, ByType) ELSE activities
        f2 == IF Truthy(start_date) \/ Truthy(end_date)
              THEN SelectSeq(f1, ByDate) ELSE f1
        f3 == IF min_distance # Omitted THEN SelectSeq(f2, ByMin) ELSE f2
        f4 == IF max_distance # Omitted THEN SelectSeq(f3, ByMax) ELSE f3
    IN IF search_query # <<>> THEN SelectSeq(f4, ByName) ELSE f4

\* ---- the cache: a set of entries [key, value, timeout] ----
\* A cached or returned value: what it is and the activities it was made of.
Value(kind, ids) == [kind |-> kind, ids |-> ids]
None == Value("None", <<>>)

ListTimeout == 300
StatsTimeout == 300
DetailTimeout == 1800

\* cache.get(key)
CacheGet(c, k) ==
    IF \E e \in c : e.key = k THEN (CHOOSE e \in c : e.key = k).value ELSE None

\* Faulty variant: the value is not stored.
CacheSetDropped(c, k, v, t) == c

\* cache.set(key, value, timeout=t)
CacheSet(c, k, v, t) ==
    {e \in c : e.key # k} \cup {[key |-> k, value |-> v, timeout |-> t]}

\* ---- exceptions ----
Exc(cls, ra, msg) == [cls |-> cls, retry_after |-> ra, msg |-> msg]
NoExc == Exc("none", Omitted, "")

\* isinstance(e, cls) over the classes of app/strava_api.py.
IsInstance(e, cls) ==
    \/ cls = "Exception"
    \/ e.cls = cls
    \/ cls = "StravaAPIError" /\ e.cls \in {"RateLimitError", "AuthenticationError"}

\* What a call of the client can raise: its three errors, and an exception
\* it lets through.
UpstreamFaults ==
    {Exc("RateLimitError", 45,
         "Rate limit exceeded. Please wait before making more requests."),
     Exc("AuthenticationError", Omitted,
         "Authentication failed. Please reconnect your Strava account."),
     Exc("StravaAPIError", Omitted, "API error: 404"),
     Exc("ValueError", Omitted, "invalid literal for int() with base 10")}

\* ---- responses ----
NoData == Value("none", <<>>)

NoResponse ==
    [kind |-> "none", type |-> "", message |-> "", status |-> 0,
     retry_after |-> Omitted, data |-> NoData]

\* error_response(message, error_type, status_code, **kwargs); retry_after
\* is Omitted when the keyword is not passed.
error_response(message, error_type, status_code, retry_after) ==
    [kind |-> "error", type |-> error_type, message |-> message,
     status |-> status_code, retry_after |-> retry_after, data |-> NoData]

success_response(data) ==
    [kind |-> "success", type |-> "", message |-> "", status |-> 200,
     retry_after |-> Omitted, data |-> data]

\* The exception leaves the handler.
RawException(e) ==
    [kind |-> "raised", type |-> e.cls, message |-> e.msg, status |-> 0,
     retry_after |-> Omitted, data |-> NoData]

\* ---- except clauses ----
\* except cls as e: return error_response(message, type, status[, retry_after])
\* where message is str(e) when own_message holds.
Clause(cls, ty, st, own, msg, retry) ==
    [cls |-> cls, type |-> ty, status |-> st, own_message |-> own,
     message |-> msg, with_retry |-> retry]

ListClauses ==
    <<Clause("RateLimitError", "rate_limit", 429, TRUE, "", TRUE),
      Clause("AuthenticationError", "auth_error", 401, TRUE, "", FALSE),
      Clause("StravaAPIError", "api_error", 500, TRUE, "", FALSE),
      Clause("Exception", "server_error", 500, FALSE,
             "An unexpected error occurred", FALSE)>>

ApiErrorClause == Clause("StravaAPIError", "api_error", 500, TRUE, "", FALSE)

CatchAll(msg) == Clause("Exception", "server_error", 500, FALSE, msg, FALSE)

DetailClauses == <<ApiErrorClause, CatchAll("Failed to fetch activity details")>>
StatsClauses == <<ApiErrorClause, CatchAll("Failed to calculate statistics")>>
WeeklyClauses ==
    <<ApiErrorClause, CatchAll("Failed to calculate weekly statistics")>>
MonthlyClauses ==
    <<ApiErrorClause, CatchAll("Failed to calculate monthly statistics")>>
RefreshClauses == <<CatchAll("Failed to clear cache")>>

\* Faulty variant: only the client's own errors are caught.
CatchKnownOnly(clauses, e) ==
    LET hits == {i \in 1..Len(clauses) :
                    clauses[i].cls # "Exception" /\ IsInstance(e, clauses[i].cls)}
    IN IF hits = {} THEN RawException(e)
       ELSE LET c == clauses[CHOOSE i \in hits : \A j \in hits : i <= j]
            IN error_response(IF c.own_message THEN e.msg ELSE c.message,
                              c.type, c.status,
                              IF c.with_retry THEN e.retry_after ELSE Omitted)

\* The first except clause that matches e answers; with none the exception
\* leaves the handler.
Catch(clauses, e) ==
    LET hits == {i \in 1..Len(clauses) : IsInstance(e, clauses[i].cls)}
    IN IF hits = {} THEN RawException(e)
       ELSE LET c == clauses[CHOOSE i \in hits : \A j \in hits : i <= j]
            IN error_response(IF c.own_message THEN e.msg ELSE c.message,
                              c.type, c.status,
                              IF c.with_retry THEN e.retry_after ELSE Omitted)

\* The calls of generate_cache_key that are made.
KeyPrefixes == {S_activities, S_activity, S_stats}
KeyAthletes == {7, 12}
ParamValues == {1, 2}
PageValues == {1, 2}
PerPageValues == {30, PerPage}
ActivityIds == {101, 102}

GenericKwargs ==
    {<<>>}
    \cup {<<<<n, v>>>> : n \in {S_a, S_b}, v \in ParamValues}
    \cup {<<<<S_a, v>>, <<S_b, w>>>> : v \in ParamValues, w \in ParamValues}
    \cup {<<<<S_b, w>>, <<S_a, v>>>> : v \in ParamValues, w \in ParamValues}

ListKwargs ==
    {<<<<S_page, pg>>, <<S_per_page, n>>>> : pg \in PageValues, n \in PerPageValues}
    \cup {<<<<S_per_page, n>>, <<S_page, pg>>>> : pg \in PageValues, n \in PerPageValues}

DetailKwargs == {<<<<S_activity_id, i>>>> : i \in ActivityIds}

KeyKwargs == GenericKwargs \cup ListKwargs \cup DetailKwargs

NoKeyCall ==
    [called |-> FALSE, prefix |-> <<>>, athlete_id |-> 0, kwargs |-> <<>>,
     key |-> <<>>]

KeyCall(prefix, athlete_id, kwargs) ==
    [called |-> TRUE, prefix |-> prefix, athlete_id |-> athlete_id,
     kwargs |-> kwargs, key |-> generate_cache_key(prefix, athlete_id, kwargs)]

GenerateKey ==
    /\ \E prefix \in KeyPrefixes, athlete_id \in KeyAthletes, kwargs \in KeyKwargs :
           kcall' = KeyCall(prefix, athlete_id, kwargs)
    /\ kprev' = kcall
    /\ UNCHANGED exceptKey

(***************************************************************************)
(* The handlers.  Each action is one request handled from entry to         *)
(* response.  What the handler meets on its way is the scenario env: the   *)
(* session (token and athlete found, not found, or the lookup raising),    *)
(* the exception of the upstream call if it raises, and the stage (cache   *)
(* access or computation) at which some other exception is raised.         *)
(***************************************************************************)
Scn(session, up, stage) == [session |-> session, up |-> up, stage |-> stage]

Scenarios ==
    {Scn("ok", NoExc, "none"), Scn("no_token", NoExc, "none"),
     Scn("lookup_fails", NoExc, "none"), Scn("ok", NoExc, "cache"),
     Scn("ok", NoExc, "compute")}
    \cup {Scn("ok", e, "none") : e \in UpstreamFaults}

LookupError == Exc("OperationalError", Omitted, "database is locked")
CacheError == Exc("OSError", Omitted, "No space left on device")
ComputeError == Exc("TypeError", Omitted, "unsupported operand type(s)")

AuthRequired == error_response("Authentication required", "auth_error", 401, Omitted)

\* How the try block ended: the exception it raised or the response it
\* returned, the cache it left, the calls of the client it made, whether
\* the value came from the cache, and the cache keys it used.
Out(exc, resp, c, up, hit, keys) ==
    [exc |-> exc, resp |-> resp, cache |-> c, upstream |-> up, hit |-> hit,
     keys |-> keys]

\* The part every handler starts with.
Entered(env, key, body) ==
    IF env.session = "lookup_fails"
    THEN Out(LookupError, NoResponse, cache, 0, FALSE, {})
    ELSE IF env.session = "no_token"
    THEN Out(NoExc, AuthRequired, cache, 0, FALSE, {})
    ELSE IF env.stage = "cache"
    THEN Out(CacheError, NoResponse, cache, 0, FALSE, {key})
    ELSE body

NoRequest ==
    [route |-> "none", filters |-> NoFilters, page |-> 0, per_page |-> 0,
     activity_id |-> 0, env |-> Scn("ok", NoExc, "none"), exc |-> NoExc,
     upstream |-> 0, hit |-> FALSE, keys |-> {}]

\* The handler's try block ended as out; its except clauses are clauses.
Handled(route, f, page, per_page, activity_id, env, out, clauses) ==
    /\ cache' = out.cache
    /\ response' = IF out.exc = NoExc THEN out.resp ELSE Catch(clauses, out.exc)
    /\ request' = [route |-> route, filters |-> f, page |-> page,
                   per_page |-> per_page, activity_id |-> activity_id,
                   env |-> env, exc |-> out.exc, upstream |-> out.upstream,
                   hit |-> out.hit, keys |-> out.keys]
    /\ UNCHANGED exceptRoute

\* GET /api/activities
ListBody(env, f, page, per_page) ==
    LET key == get_activities_cache_key(
                   RouteAthlete, <<<<S_page, page>>, <<S_per_page, per_page>>>>)
        cached == CacheGet(cache, key)
        miss == cached = None
        range == parse_date_range(f.start_date, f.end_date, utc_offset)
        fresh == Value("list", UpstreamList(
                     ActivitiesParams(per_page, page, range[2], range[1])))
        activities == IF miss THEN fresh ELSE cached
        stored == IF miss THEN CacheSet(cache, key, fresh, ListTimeout) ELSE cache
        calls == IF miss THEN 1 ELSE 0
        filtered == filter_activities(
                        activities.ids, f.type, Omitted, Omitted,
                        KmToMetres(f.min_distance), KmToMetres(f.max_distance),
                        f.search, utc_offset)
    IN Entered(env, key,
           IF miss /\ env.up # NoExc
           THEN Out(env.up, NoResponse, cache, 1, FALSE, {key})
           ELSE IF env.stage = "compute"
           THEN Out(ComputeError, NoResponse, stored, calls, ~miss, {key})
           ELSE Out(NoExc, success_response(Value("activities", filtered)),
                    stored, calls, ~miss, {key}))

RoutePages == {1}
RoutePerPages == {DefaultPerPage}

GetActivities ==
    \E env \in Scenarios, f \in FilterSets, page \in RoutePages,
       per_page \in RoutePerPages :
        Handled("activities", f, page, per_page, 0, env,
                ListBody(env, f, page, per_page), ListClauses)

\* GET /api/activity/<activity_id>
DetailKey(activity_id) ==
    S_strava \o <<":">> \o Str(RouteAthlete) \o <<":">> \o S_activity
        \o <<":">> \o Str(activity_id)

DetailBody(env, activity_id) ==
    LET key == DetailKey(activity_id)
        cached == CacheGet(cache, key)
        miss == cached = None
        fresh == Value("activity", <<activity_id>>)
    IN Entered(env, key,
           IF miss /\ env.up # NoExc
           THEN Out(env.up, NoResponse, cache, 1, FALSE, {key})
           ELSE IF miss
           THEN Out(NoExc, success_response(fresh),
                    CacheSet(cache, key, fresh, DetailTimeout), 1, FALSE, {key})
           ELSE Out(NoExc, success_response(cached), cache, 0, TRUE, {key}))

GetActivity ==
    \E env \in Scenarios, activity_id \in ActivityIds :
        Handled("activity", NoFilters, 0, 0, activity_id, env,
                DetailBody(env, activity_id), DetailClauses)

\* GET /api/stats.  On a miss fetch_all_activities runs and gives the list
\* swept in sweep.requests page requests, or raises env.up.
SweepResults ==
    {[ids |-> <<>>, requests |-> 1], [ids |-> UpstreamActivities, requests |-> 1]}

\* Faulty variant: the bundle is stored before the statistics are computed.
StatsBodyStoresFirst(env, sweep) ==
    LET key == get_stats_cache_key(RouteAthlete)
        cached == CacheGet(cache, key)
        miss == cached = None
        stats == Value("stats", sweep.ids)
        stored == CacheSet(cache, key, stats, StatsTimeout)
    IN Entered(env, key,
           IF ~miss
           THEN Out(NoExc, success_response(cached), cache, 0, TRUE, {key})
           ELSE IF env.up # NoExc
           THEN Out(env.up, NoResponse, cache, 1, FALSE, {key})
           ELSE IF env.stage = "compute"
           THEN Out(ComputeError, NoResponse, stored, sweep.requests, FALSE, {key})
           ELSE Out(NoExc, success_response(stats), stored, sweep.requests,
                    FALSE, {key}))

StatsBody(env, sweep) ==
    LET key == get_stats_cache_key(RouteAthlete)
        cached == CacheGet(cache, key)
        miss == cached = None
        stats == Value("stats", sweep.ids)
    IN Entered(env, key,
           IF ~miss
           THEN Out(NoExc, success_response(cached), cache, 0, TRUE, {key})
           ELSE IF env.up # NoExc
           THEN Out(env.up, NoResponse, cache, 1, FALSE, {key})
           ELSE IF env.stage = "compute"
           THEN Out(ComputeError, NoResponse, cache, sweep.requests, FALSE, {key})
           ELSE Out(NoExc, success_response(stats),
                    CacheSet(cache, key, stats, StatsTimeout), sweep.requests,
                    FALSE, {key}))

GetStats ==
    \E env \in Scenarios, sweep \in SweepResults :
        Handled("stats", NoFilters, 0, 0, 0, env, StatsBody(env, sweep),
                StatsClauses)

\* GET /api/stats/weekly and /api/stats/monthly: no cache, one call of
\* get_athlete_activities(per_page=200).
SummaryBody(env, kind) ==
    LET activities == UpstreamList(ActivitiesParams(PerPage, 1, NoCursor, NoCursor))
    IN IF env.session = "lookup_fails"
       THEN Out(LookupError, NoResponse, cache, 0, FALSE, {})
       ELSE IF env.session = "no_token"
       THEN Out(NoExc, AuthRequired, cache, 0, FALSE, {})
       ELSE IF env.up # NoExc
       THEN Out(env.up, NoResponse, cache, 1, FALSE, {})
       ELSE IF env.stage = "compute"
       THEN Out(ComputeError, NoResponse, cache, 1, FALSE, {})
       ELSE Out(NoExc, success_response(Value(kind, activities)), cache, 1,
                FALSE, {})

GetWeeklyStats ==
    \E env \in Scenarios :
        Handled("weekly", NoFilters, 0, 0, 0, env,
                SummaryBody(env, "weekly_summary"), WeeklyClauses)

GetMonthlyStats ==
    \E env \in Scenarios :
        Handled("monthly", NoFilters, 0, 0, 0, env,
                SummaryBody(env, "monthly_summary"), MonthlyClauses)

\* POST /api/refresh: clear_athlete_cache clears the whole cache.
RefreshBody(env) ==
    IF env.session = "lookup_fails"
    THEN Out(LookupError, NoResponse, cache, 0, FALSE, {})
    ELSE IF env.session = "no_token"
    THEN Out(NoExc, AuthRequired, cache, 0, FALSE, {})
    ELSE IF env.stage = "cache"
    THEN Out(CacheError, NoResponse, cache, 0, FALSE, {})
    ELSE Out(NoExc, success_response(Value("message", <<>>)), {}, 0, FALSE, {})

RefreshData ==
    \E env \in Scenarios :
        Handled("refresh", NoFilters, 0, 0, 0, env, RefreshBody(env),
                RefreshClauses)

\* An entry's timeout passes between two requests.
Expire ==
    /\ \E e \in cache : cache' = cache \ {e}
    /\ request' = NoRequest
    /\ response' = NoResponse
    /\ UNCHANGED exceptRoute

(***************************************************************************)
(* The aggregation functions (app/stats.py).  An activity record keeps     *)
(* the keys the functions read; a key the record does not have is          *)
(* Omitted (NoType for "type").                                            *)
(***************************************************************************)
NoType == "<missing>"
S_Unknown == "Unknown"

StatActivity(id, type, distance, moving_time, total_elevation_gain) ==
    [id |-> id, type |-> type, distance |-> distance,
     moving_time |-> moving_time,
     total_elevation_gain |-> total_elevation_gain]

\* The records the lists are made of: runs, rides and untyped records,
\* with ties in every field, zeros, and missing keys.
StatActivities ==
    { StatActivity(1, T_Run, 10000, 3000, Omitted),
      StatActivity(2, T_Ride, 20000, 3600, Omitted),
      StatActivity(3, T_Run, 5000, 1500, 100),
      StatActivity(4, T_Ride, 20000, 3600, 100),
      StatActivity(5, NoType, Omitted, Omitted, Omitted),
      StatActivity(6, T_Run, 10000, 2500, 50),
      StatActivity(7, T_Run, 0, 600, 0),
      StatActivity(8, T_Run, 3000, 0, Omitted),
      StatActivity(9, NoType, 1000, 200, 100) }

MaxListLen == 3

ActivityLists == UNION {[1..n -> StatActivities] : n \in 0..MaxListLen}

\* dict.get(key, default) on a value that is Omitted when the key is absent.
Get(v, default) == IF v = Omitted THEN default ELSE v

\* ---- calculate_totals ----
NoTotals(count) ==
    [total_distance |-> 0, total_time |-> 0, total_elevation |-> 0,
     activity_count |-> count]

AddActivity(totals, activity) ==
    [totals EXCEPT
        !.total_distance = @ + Get(activity.distance, 0),
        !.total_time = @ + Get(activity.moving_time, 0),
        !.total_elevation = @ + Get(activity.total_elevation_gain, 0)]

RECURSIVE TotalsLoop(_, _)
TotalsLoop(totals, rest) ==
    IF rest = <<>> THEN totals
    ELSE TotalsLoop(AddActivity(totals, Head(rest)), Tail(rest))

CalculateTotalsNoElevation(activities) ==
    [TotalsLoop(NoTotals(Len(activities)), activities)
        EXCEPT !.total_elevation = 0]

calculate_totals(activities) ==
    TotalsLoop(NoTotals(Len(activities)), activities)

\* ---- true division: Python's / on numbers, kept exact as fractions ----
RECURSIVE Gcd(_, _)
Gcd(a, b) == IF b = 0 THEN a ELSE Gcd(b, a % b)

\* The fraction n/d (n >= 0, d > 0) in lowest terms.
Frac(n, d) == <<n \div Gcd(n, d), d \div Gcd(n, d)>>

Num(n) == <<n, 1>>

\* What stands for a raised ZeroDivisionError.
ZeroDivisionError == <<0, 0>>

TrueDiv(x, y) ==
    IF x = ZeroDivisionError \/ y = ZeroDivisionError THEN ZeroDivisionError
    ELSE IF y[1] = 0 THEN ZeroDivisionError
    ELSE Frac(x[1] * y[2], x[2] * y[1])

FracLess(x, y) == x[1] * y[2] < y[1] * x[2]

\* ---- calculate_averages ----
NoAverages ==
    [avg_distance |-> Num(0), avg_speed |-> Num(0), avg_pace |-> Num(0),
     avg_duration |-> Num(0)]

Averages(totals, count) ==
    [avg_distance |-> TrueDiv(Num(totals.total_distance), Num(count)),
     avg_speed |->
         IF totals.total_time > 0
         THEN TrueDiv(Num(totals.total_distance), Num(totals.total_time))
         ELSE Num(0),
     avg_pace |->
         IF totals.total_distance > 0
         THEN TrueDiv(Num(totals.total_time),
                      TrueDiv(Num(totals.total_distance), Num(1000)))
         ELSE Num(0),
     avg_duration |-> TrueDiv(Num(totals.total_time), Num(count))]

CalculateAveragesNoEmptyCheck(activities) ==
    Averages(calculate_totals(activities), Len(activities))

CalculateAveragesUnguarded(activities) ==
    IF activities = <<>> THEN NoAverages
    ELSE LET totals == calculate_totals(activities)
             count == Len(activities)
         IN  [avg_distance |->
                  TrueDiv(Num(totals.total_distance), Num(count)),
              avg_speed |->
                  TrueDiv(Num(totals.total_distance), Num(totals.total_time)),
              avg_pace |->
                  TrueDiv(Num(totals.total_time),
                          TrueDiv(Num(totals.total_distance), Num(1000))),
              avg_duration |-> TrueDiv(Num(totals.total_time), Num(count))]

calculate_averages(activities) ==
    IF activities = <<>> THEN NoAverages
    ELSE Averages(calculate_totals(activities), Len(activities))

\* ---- find_personal_records ----
\* None, where an activity is expected.
NoActivity == StatActivity(0, NoType, Omitted, Omitted, Omitted)

\* max(seq, key=...): the index of the element kept by a scan that replaces
\* the best so far only by a strictly greater key.
RECURSIVE MaxLoop(_, _, _)
MaxLoop(keys, best, i) ==
    IF i > Len(keys) THEN best
    ELSE MaxLoop(keys, IF keys[i] > keys[best] THEN i ELSE best, i + 1)

RECURSIVE MaxLoopLast(_, _, _)
MaxLoopLast(keys, best, i) ==
    IF i > Len(keys) THEN best
    ELSE MaxLoopLast(keys, IF keys[i] >= keys[best] THEN i ELSE best, i + 1)

MaxByKeyLast(keys) == MaxLoopLast(keys, 1, 2)

MaxByKey(keys) == MaxLoop(keys, 1, 2)

\* min(seq, key=...), the keys being fractions.
RECURSIVE MinLoop(_, _, _)
MinLoop(keys, best, i) ==
    IF i > Len(keys) THEN best
    ELSE MinLoop(keys, IF FracLess(keys[i], keys[best]) THEN i ELSE best, i + 1)

MinByKey(keys) == MinLoop(keys, 1, 2)

KeysOf(activities, Key(_)) == [i \in DOMAIN activities |-> Key(activities[i])]

DistanceKey(a) == Get(a.distance, 0)
ElevationKey(a) == Get(a.total_elevation_gain, 0)
DurationKey(a) == Get(a.moving_time, 0)
PaceKey(a) ==
    TrueDiv(Num(Get(a.moving_time, 0)),
            TrueDiv(Num(Get(a.distance, 0)), Num(1000)))

IsPacedRun(a) ==
    a.type = T_Run /\ Get(a.distance, 0) > 0 /\ Get(a.moving_time, 0) > 0

IsPaced(a) == Get(a.distance, 0) > 0 /\ Get(a.moving_time, 0) > 0

RunsAnyType(activities) == SelectSeq(activities, IsPaced)

Runs(activities) == SelectSeq(activities, IsPacedRun)

NoRecords ==
    [longest_distance |-> NoActivity, fastest_pace |-> NoActivity,
     highest_elevation |-> NoActivity, longest_duration |-> NoActivity]

find_personal_records(activities) ==
    IF activities = <<>> THEN NoRecords
    ELSE LET runs == Runs(activities)
         IN  [longest_distance |->
                  activities[MaxByKey(KeysOf(activities, DistanceKey))],
              highest_elevation |->
                  activities[MaxByKey(KeysOf(activities, ElevationKey))],
              longest_duration |->
                  activities[MaxByKey(KeysOf(activities, DurationKey))],
              fastest_pace |->
                  IF runs # <<>>
                  THEN runs[MinByKey(KeysOf(runs, PaceKey))]
                  ELSE NoActivity]

\* ---- group_by_activity_type ----
TypeLabelRaw(a) == a.type

TypeLabel(a) == IF a.type = NoType THEN S_Unknown ELSE a.type

Labels(activities) == {TypeLabel(activities[i]) : i \in DOMAIN activities}

OfType(activities, label) ==
    SelectSeq(activities, LAMBDA a : TypeLabel(a) = label)

TypeStats(type_activities) ==
    LET totals == calculate_totals(type_activities)
    IN  [count |-> Len(type_activities),
         total_distance |-> totals.total_distance,
         total_time |-> totals.total_time,
         total_elevation |-> totals.total_elevation,
         activity_count |-> totals.activity_count]

group_by_activity_type(activities) ==
    [label \in Labels(activities) |-> TypeStats(OfType(activities, label))]

\* ---- one call of an aggregation function ----
NoAggCall == [fn |-> "none", activities |-> <<>>]

AggCall(fn, activities, result) ==
    /\ agg_call' = [fn |-> fn, activities |-> activities]
    /\ agg_result' = result
    /\ UNCHANGED exceptAgg

CalculateTotals ==
    /\ agg_call = NoAggCall
    /\ \E l \in ActivityLists :
           AggCall("calculate_totals", l, calculate_totals(l))

CalculateAverages ==
    /\ agg_call = NoAggCall
    /\ \E l \in ActivityLists :
           AggCall("calculate_averages", l, calculate_averages(l))

FindPersonalRecords ==
    /\ agg_call = NoAggCall
    /\ \E l \in ActivityLists :
           AggCall("find_personal_records", l, find_personal_records(l))

GroupByActivityType ==
    /\ agg_call = NoAggCall
    /\ \E l \in ActivityLists :
           AggCall("group_by_activity_type", l, group_by_activity_type(l))

(***************************************************************************)
(* The calendar summaries (app/stats.py).  A datetime is a naive civil     *)
(* time [year, month, day, hour]; datetimes are compared, and timedeltas   *)
(* subtracted, through the hours since 1 January of EpochYear, a Monday.   *)
(***************************************************************************)
EpochYear == 2018

IsLeap(y) == (y % 4 = 0 /\ y % 100 # 0) \/ y % 400 = 0

DaysInYear(y) == IF IsLeap(y) THEN 366 ELSE 365

DaysInMonth(y, m) ==
    IF m = 2 THEN (IF IsLeap(y) THEN 29 ELSE 28)
    ELSE IF m \in {4, 6, 9, 11} THEN 30 ELSE 31

RECURSIVE DaysBeforeYear(_)
DaysBeforeYear(y) ==
    IF y <= EpochYear THEN 0 ELSE DaysInYear(y - 1) + DaysBeforeYear(y - 1)

RECURSIVE DaysBeforeMonth(_, _)
DaysBeforeMonth(y, m) ==
    IF m <= 1 THEN 0 ELSE DaysInMonth(y, m - 1) + DaysBeforeMonth(y, m - 1)

\* datetime(year, month, day, hour)
Datetime(y, m, d, h) == [year |-> y, month |-> m, day |-> d, hour |-> h]

\* date.toordinal(), counted from the epoch.
Ordinal(dt) ==
    DaysBeforeYear(dt.year) + DaysBeforeMonth(dt.year, dt.month) + dt.day - 1

\* The position of a datetime on the time line, in hours.
Hours(dt) == 24 * Ordinal(dt) + dt.hour

\* datetime.weekday(): Monday is 0.
Weekday(dt) == Ordinal(dt) % 7

HoursPerDay == 24

\* timedelta(days=n), in hours.
Timedelta(days) == HoursPerDay * days

\* "%Y-%m-%dT%H:%M:%SZ", written and read.
Pad2(n) == IF n < 10 THEN <<"0">> \o Str(n) ELSE Str(n)

IsoFormat(dt) ==
    Str(dt.year) \o <<"-">> \o Pad2(dt.month) \o <<"-">> \o Pad2(dt.day)
        \o <<"T">> \o Pad2(dt.hour) \o <<":", "0", "0", ":", "0", "0", "Z">>

strptime(s) ==
    Datetime(ParseInt(SubSeq(s, 1, 4)).val, ParseInt(SubSeq(s, 6, 7)).val,
             ParseInt(SubSeq(s, 9, 10)).val, ParseInt(SubSeq(s, 12, 13)).val)

\* An activity that started at dt.
DatedActivity(id, dt) ==
    [id |-> id, start_date |-> IsoFormat(dt), distance |-> 1000 * id,
     moving_time |-> 300 * id, total_elevation_gain |-> Omitted]

\* The instants at which a summary is asked for: a Thursday afternoon, a
\* Monday at midnight, a Sunday night, a 1 January and a 29 February.
Todays ==
    { Datetime(2026, 11, 5, 15), Datetime(2026, 11, 2, 0),
      Datetime(2026, 11, 8, 23), Datetime(2026, 1, 1, 10),
      Datetime(2024, 2, 29, 12) }

\* The activities the lists are made of, by start time.
DatedActivities ==
    { DatedActivity(1, Datetime(2026, 11, 2, 8)),
      DatedActivity(2, Datetime(2026, 11, 1, 23)),
      DatedActivity(3, Datetime(2026, 10, 26, 8)),
      DatedActivity(4, Datetime(2026, 10, 26, 0)),
      DatedActivity(5, Datetime(2025, 12, 31, 23)),
      DatedActivity(6, Datetime(2026, 1, 1, 0)),
      DatedActivity(7, Datetime(2024, 1, 31, 23)) }

MaxDated == 2

DatedLists == UNION {[1..n -> DatedActivities] : n \in 0..MaxDated}

\* The number of buckets asked for (weeks=, months=).
BucketCounts == {0, 1, 2, 6, 13, 25}

\* The activities of a list that start in [from, to), in hours.
Between(activities, from, to) ==
    SelectSeq(activities,
              LAMBDA a : from <= Hours(strptime(a.start_date))
                         /\ Hours(strptime(a.start_date)) < to)

RECURSIVE Reversed(_)
Reversed(s) == IF s = <<>> THEN <<>> ELSE Reversed(Tail(s)) \o <<Head(s)>>

\* ---- calculate_weekly_summary ----
\* week_start keeps today's time of day: only days are subtracted.
WeekStart(today, week_num) ==
    Hours(today) - Timedelta(Weekday(today) + 7 * week_num + 7)

WeekStartAtMidnight(today, week_num) ==
    24 * Ordinal(today) - Timedelta(Weekday(today) + 7 * week_num + 7)

WeekEnd(week_start) == week_start + Timedelta(7)

WeekBucket(activities, today, week_num) ==
    LET week_start == WeekStart(today, week_num)
        week_end == WeekEnd(week_start)
        totals == calculate_totals(Between(activities, week_start, week_end))
    IN  [week_start |-> week_start, week_end |-> week_end,
         total_distance |-> totals.total_distance,
         total_time |-> totals.total_time,
         total_elevation |-> totals.total_elevation,
         activity_count |-> totals.activity_count]

calculate_weekly_summary(activities, today, weeks) ==
    Reversed([k \in 1..weeks |-> WeekBucket(activities, today, k - 1)])

\* ---- calculate_monthly_summary ----
\* The while loop that brings month into 1..12.
WrapMonthOnce(year, month) ==
    IF month <= 0 THEN [year |-> year - 1, month |-> month + 12]
    ELSE [year |-> year, month |-> month]

RECURSIVE WrapMonth(_, _)
WrapMonth(year, month) ==
    IF month <= 0 THEN WrapMonth(year - 1, month + 12)
    ELSE [year |-> year, month |-> month]

BucketMonth(today, month_offset) ==
    WrapMonth(today.year, today.month - month_offset)

NextMonth(ym) ==
    IF ym.month + 1 > 12 THEN [year |-> ym.year + 1, month |-> 1]
    ELSE [year |-> ym.year, month |-> ym.month + 1]

MonthBucket(activities, today, month_offset) ==
    LET ym == BucketMonth(today, month_offset)
        nx == NextMonth(ym)
        month_start == Datetime(ym.year, ym.month, 1, 0)
        month_end == Datetime(nx.year, nx.month, 1, 0)
        totals == calculate_totals(
                      Between(activities, Hours(month_start), Hours(month_end)))
    IN  [year |-> ym.year, month |-> ym.month,
         total_distance |-> totals.total_distance,
         total_time |-> totals.total_time,
         total_elevation |-> totals.total_elevation,
         activity_count |-> totals.activity_count]

calculate_monthly_summary(activities, today, months) ==
    Reversed([k \in 1..months |-> MonthBucket(activities, today, k - 1)])

\* ---- calculate_yearly_summary ----
Years(activities) ==
    {strptime(activities[i].start_date).year : i \in DOMAIN activities}

RECURSIVE SortedYearsDescending(_)
SortedYearsDescending(years) ==
    IF years = {} THEN <<>>
    ELSE LET most == CHOOSE y \in years : \A z \in years : y >= z
         IN  <<most>> \o SortedYearsDescending(years \ {most})

\* sorted(years)
RECURSIVE SortedYears(_)
SortedYears(years) ==
    IF years = {} THEN <<>>
    ELSE LET least == CHOOSE y \in years : \A z \in years : y <= z
         IN  <<least>> \o SortedYears(years \ {least})

YearBucket(activities, year) ==
    LET year_start == Datetime(year, 1, 1, 0)
        year_end == Datetime(year + 1, 1, 1, 0)
        totals == calculate_totals(
                      Between(activities, Hours(year_start), Hours(year_end)))
    IN  [year |-> year, year_label |-> Str(year),
         total_distance |-> totals.total_distance,
         total_time |-> totals.total_time,
         total_elevation |-> totals.total_elevation,
         activity_count |-> totals.activity_count]

calculate_yearly_summary(activities) ==
    IF activities = <<>> THEN <<>>
    ELSE LET years == SortedYears(Years(activities))
         IN  [k \in DOMAIN years |-> YearBucket(activities, years[k])]

\* ---- one call of a summary function ----
NoSumCall == [fn |-> "none", today |-> Datetime(EpochYear, 1, 1, 0), n |-> 0,
              activities |-> <<>>]

SumCall(fn, today, n, activities, result) ==
    /\ sum_call' = [fn |-> fn, today |-> today, n |-> n,
                    activities |-> activities]
    /\ sum_result' = result
    /\ UNCHANGED exceptSum

CalculateWeeklySummary ==
    /\ sum_call = NoSumCall
    /\ \E today \in Todays, weeks \in BucketCounts, l \in DatedLists :
           SumCall("calculate_weekly_summary", today, weeks, l,
                   calculate_weekly_summary(l, today, weeks))

CalculateMonthlySummary ==
    /\ sum_call = NoSumCall
    /\ \E today \in Todays, months \in BucketCounts, l \in DatedLists :
           SumCall("calculate_monthly_summary", today, months, l,
                   calculate_monthly_summary(l, today, months))

CalculateYearlySummary ==
    /\ sum_call = NoSumCall
    /\ \E l \in DatedLists :
           SumCall("calculate_yearly_summary", NoSumCall.today, 0, l,
                   calculate_yearly_summary(l))

(***************************************************************************)
(* One call of filter_activities (app/utils.py) on a list of activities    *)
(* and any choice of its optional arguments.                               *)
(***************************************************************************)
FilteredIds == {101, 102, 103}

MaxFiltered == 3

FilteredLists == UNION {[1..n -> FilteredIds] : n \in 0..MaxFiltered}

TypeArgs == {NoText, T_Run, T_Ride}

\* Timestamps: None, 0, and the first and the last second of day 15.
StartArgs == {Omitted, 0, 15 * SecondsPerDay}
EndArgs == {Omitted, 0, 15 * SecondsPerDay + EndOfDay}

\* Distances in metres: None, 0, and 10 km.
DistanceArgs == {Omitted, 0, 10 * MetresPerKm}

QueryArgs == {<<>>, Q_RUN}

FltCall(l, ty, sd, ed, mn, mx, q, offset) ==
    [called |-> TRUE, activities |-> l, activity_type |-> ty,
     start_date |-> sd, end_date |-> ed, min_distance |-> mn,
     max_distance |-> mx, search_query |-> q, offset |-> offset]

NoFltCall ==
    [called |-> FALSE, activities |-> <<>>, activity_type |-> NoText,
     start_date |-> Omitted, end_date |-> Omitted, min_distance |-> Omitted,
     max_distance |-> Omitted, search_query |-> <<>>, offset |-> 0]

FilterActivities ==
    /\ flt_call = NoFltCall
    /\ \E l \in FilteredLists, ty \in TypeArgs, sd \in StartArgs,
          ed \in EndArgs, mn \in DistanceArgs, mx \in DistanceArgs,
          q \in QueryArgs, offset \in UtcOffsets :
           /\ flt_call' = FltCall(l, ty, sd, ed, mn, mx, q, offset)
           /\ flt_result' =
                  filter_activities(l, ty, sd, ed, mn, mx, q, offset)
    /\ UNCHANGED exceptFlt

(***************************************************************************)
(* One call of parse_date_range (app/utils.py) on two query-string values. *)
(* A value is None, or a string; dates are taken from EpochYear on, and    *)
(* the earliest date of all.                                               *)
(***************************************************************************)
NoneText == <<"None">>

\* str.split(sep) for a one-character separator.
RECURSIVE SplitOn(_, _)
SplitOn(s, sep) ==
    IF \A i \in 1..Len(s) : s[i] # sep
    THEN <<s>>
    ELSE LET k == CHOOSE i \in 1..Len(s) :
                      s[i] = sep /\ \A j \in 1..(i - 1) : s[j] # sep
         IN <<SubSeq(s, 1, k - 1)>> \o SplitOn(SubSeq(s, k + 1, Len(s)), sep)

\* The days from 1 January 1970 to 1 January of EpochYear.
DaysToEpochYear == 17532

NotADate == [ok |-> FALSE, year |-> 0, month |-> 0, day |-> 0]

\* datetime.strptime(s, "%Y-%m-%d"): four digits, one or two digits from 1
\* to 12, one or two digits from 1 to 31, and a day the month has; anything
\* else raises ValueError (ok is FALSE).
strptime_date(s) ==
    LET f == SplitOn(s, "-")
    IN  IF Len(f) # 3 THEN NotADate
        ELSE LET y == ParseInt(f[1])
                 m == ParseInt(f[2])
                 d == ParseInt(f[3])
             IN  IF /\ Len(f[1]) = 4 /\ y.ok /\ y.val >= 1
                    /\ Len(f[2]) \in {1, 2} /\ m.ok /\ m.val \in 1..12
                    /\ Len(f[3]) \in {1, 2} /\ d.ok /\ d.val >= 1
                    /\ d.val <= DaysInMonth(y.val, m.val)
                 THEN [ok |-> TRUE, year |-> y.val, month |-> m.val,
                       day |-> d.val]
                 ELSE NotADate

\* The days from 1 January 1970 to a date.
DaysSince1970(p) == DaysToEpochYear + Ordinal(Datetime(p.year, p.month, p.day, 0))

\* datetime.timestamp() of a naive datetime raises ValueError ("year 0 is
\* out of range") for the earliest date a datetime holds, 0001-01-01.
TimestampRaises(p) == p.year = 1 /\ p.month = 1 /\ p.day = 1

\* What parse_date_range makes of one value: `if s:` is false for None and
\* for "", strptime and timestamp() return or raise ValueError.
DateForm(s) ==
    IF s = NoneText \/ s = <<>> THEN NoDate
    ELSE LET p == strptime_date(s)
         IN  IF p.ok /\ ~TimestampRaises(p)
             THEN Day(DaysSince1970(p)) ELSE BadDate

\* ---- the values a call is made with: the text, and what it was written
\* ---- from ----
DateText(y, m, d) == Str(y) \o <<"-">> \o Pad2(m) \o <<"-">> \o Pad2(d)

Written(text, kind, y, m, d) ==
    [text |-> text, kind |-> kind, year |-> y, month |-> m, day |-> d]

ValidDate(y, m, d) == Written(DateText(y, m, d), "valid", y, m, d)

Unparseable(text) == Written(text, "unparseable", 0, 0, 0)

Absent(text) == Written(text, "absent", 0, 0, 0)

DateValues ==
    { Absent(NoneText), Absent(<<>>),
      ValidDate(2024, 1, 1), ValidDate(2024, 2, 29), ValidDate(2024, 12, 31),
      ValidDate(2025, 1, 1), ValidDate(2026, 3, 29),
      Written(<<"2", "0", "2", "4", "-", "1", "-", "1">>, "valid", 2024, 1, 1),
      Written(<<"0", "0", "0", "1", "-", "0", "1", "-", "0", "1">>, "valid",
              1, 1, 1),
      Unparseable(DateText(2025, 2, 29)),
      Unparseable(DateText(2024, 13, 1)),
      Unparseable(DateText(2024, 4, 31)),
      Unparseable(DateText(2024, 1, 0)),
      Unparseable(<<"2", "0", "2", "4", "/", "0", "1", "/", "0", "1">>),
      Unparseable(<<"0", "1", "-", "0", "1", "-", "2", "0", "2", "4">>),
      Unparseable(DateText(2024, 1, 1) \o <<"T", "0", "0", ":", "0", "0">>),
      Unparseable(<<"t", "o", "d", "a", "y">>) }

NoDateCall ==
    [called |-> FALSE, start |-> Absent(NoneText), end |-> Absent(NoneText),
     offset |-> 0]

ParseDateRange ==
    /\ dr_call = NoDateCall
    /\ \E start \in DateValues, end \in DateValues, offset \in UtcOffsets :
           /\ dr_call' = [called |-> TRUE, start |-> start, end |-> end,
                          offset |-> offset]
           /\ dr_result' = parse_date_range(DateForm(start.text),
                                            DateForm(end.text), offset)
    /\ UNCHANGED exceptDate

(***************************************************************************)
(* Two athletes' requests to the cached routes over the one cache of the   *)
(* application.  A request is two steps, the lookup under the key of the   *)
(* session's athlete and, after a miss, the upstream call with the         *)
(* session's token followed by cache.set; the steps of the two athletes    *)
(* interleave.  A value records whose token fetched it.                    *)
(***************************************************************************)
Athletes == {1, 12}
ShareActivityIds == {12}
ShareRoutes == {"activities", "activity", "stats"}

Owned(kind, owner, ids) == [kind |-> kind, ids |-> ids, owner |-> owner]

\* f"strava:{athlete_id}:activity:{activity_id}"
ActivityKey(athlete_id, activity_id) ==
    S_strava \o <<":">> \o Str(athlete_id) \o <<":">> \o S_activity
        \o <<":">> \o Str(activity_id)

\* The cache key a handler uses for the session's athlete.
HandlerKey(athlete_id, route, activity_id) ==
    IF route = "activities"
    THEN get_activities_cache_key(
             athlete_id, <<<<S_page, 1>>, <<S_per_page, DefaultPerPage>>>>)
    ELSE IF route = "activity" THEN ActivityKey(athlete_id, activity_id)
    ELSE get_stats_cache_key(athlete_id)

HandlerTimeout(route) ==
    IF route = "activities" THEN ListTimeout
    ELSE IF route = "activity" THEN DetailTimeout
    ELSE StatsTimeout

NoPending == [route |-> "none", activity_id |-> 0, key |-> <<>>]

\* token, athlete_id of the session; cache_key; cache.get(cache_key)
ShareLookup ==
    \E a \in Athletes, route \in ShareRoutes, id \in ShareActivityIds :
        LET key == HandlerKey(a, route, id)
            cached == CacheGet(sh_cache, key)
        IN /\ sh_pending[a] = NoPending
           /\ sh_read' = [sh_read EXCEPT ![a] = @ \cup {key}]
           /\ IF cached = None
              THEN /\ sh_pending' = [sh_pending EXCEPT ![a] =
                          [route |-> route, activity_id |-> id, key |-> key]]
                   /\ UNCHANGED sh_served
              ELSE /\ sh_served' = [sh_served EXCEPT ![a] = @ \cup {cached}]
                   /\ UNCHANGED sh_pending
           /\ UNCHANGED <<sh_cache, sh_written, exceptShare>>

\* StravaAPI(token) answers with the athlete's data; cache.set; response
ShareStore ==
    \E a \in Athletes :
        LET p == sh_pending[a]
            fresh == Owned(p.route, a, <<p.activity_id>>)
        IN /\ p # NoPending
           /\ sh_cache' = CacheSet(sh_cache, p.key, fresh, HandlerTimeout(p.route))
           /\ sh_written' = [sh_written EXCEPT ![a] = @ \cup {p.key}]
           /\ sh_served' = [sh_served EXCEPT ![a] = @ \cup {fresh}]
           /\ sh_pending' = [sh_pending EXCEPT ![a] = NoPending]
           /\ UNCHANGED <<sh_read, exceptShare>>

\* The upstream call raises: an error response, nothing stored.
ShareFail ==
    \E a \in Athletes :
        /\ sh_pending[a] # NoPending
        /\ sh_pending' = [sh_pending EXCEPT ![a] = NoPending]
        /\ UNCHANGED <<sh_cache, sh_read, sh_written, sh_served, exceptShare>>

\* POST /api/refresh by either athlete: cache.clear()
ShareRefresh ==
    /\ sh_cache # {}
    /\ sh_cache' = {}
    /\ UNCHANGED <<sh_pending, sh_read, sh_written, sh_served, exceptShare>>

\* An entry's timeout passes.
ShareExpire ==
    /\ \E e \in sh_cache : sh_cache' = sh_cache \ {e}
    /\ UNCHANGED <<sh_pending, sh_read, sh_written, sh_served, exceptShare>>

(***************************************************************************)
(* The users table, the sessions and the guarded routes: the decorators    *)
(* of app/auth.py and the account operations of app/routes/admin.py.  A    *)
(* request arrives, its decorator is evaluated, and the handler of an      *)
(* account operation then reads the rows and writes in separate steps,     *)
(* between which the steps of the other session's request can fall.        *)
(***************************************************************************)
UserIds == {1, 2}
Sessions == {"s1", "s2"}
NoUser == 0

\* The users whose row has an athlete_id.
Linked == {1}

AdminOps == {"toggle_disable", "admin_delete_user", "toggle_admin"}
StravaRoutes == {"dashboard"}
AuthRoutes == {"guarded_by_requires_auth"}
AdminRoutes == {"admin_dashboard"} \cup AdminOps

Row(exists, is_admin, is_disabled) ==
    [exists |-> exists, is_admin |-> is_admin, is_disabled |-> is_disabled]

Idle == [stage |-> "idle", route |-> "none", target |-> NoUser, new_status |-> FALSE,
         token |-> FALSE]

\* No request in flight, the last one having been redirected to `to`.
TurnedAway(to, cleared) ==
    [stage |-> "idle", route |-> to, target |-> NoUser, new_status |-> FALSE,
     token |-> cleared]

Arrived(route, target, token) ==
    [stage |-> "guard", route |-> route, target |-> target, new_status |-> FALSE,
     token |-> token]

\* What a decorator or a handler step decides: the handler goes on or the
\* request ends, and the session is cleared or kept.
Go(cleared) == [go |-> TRUE, cleared |-> cleared, to |-> "handler"]
Redirect(to, cleared) == [go |-> FALSE, cleared |-> cleared, to |-> to]

\* Faulty variant: the disabled flag is not looked at.
GetCurrentUserIgnoresDisabled(users, user_id) ==
    IF user_id = NoUser \/ ~users[user_id].exists
    THEN [user |-> NoUser, cleared |-> FALSE]
    ELSE [user |-> user_id, cleared |-> FALSE]

\* get_current_user(): the row of the session's user, None (NoUser) for no
\* user_id, no row or a disabled row; a disabled row clears the session.
get_current_user(users, user_id) ==
    IF user_id = NoUser \/ ~users[user_id].exists
    THEN [user |-> NoUser, cleared |-> FALSE]
    ELSE IF users[user_id].is_disabled
    THEN [user |-> NoUser, cleared |-> TRUE]
    ELSE [user |-> user_id, cleared |-> FALSE]

requires_auth(users, user_id) ==
    IF user_id = NoUser THEN Redirect("login", FALSE)
    ELSE LET user == get_current_user(users, user_id)
         IN IF user.user = NoUser THEN Redirect("login", TRUE)
            ELSE Go(FALSE)

\* token_ok: get_valid_token() returns a token.
requires_strava(users, user_id, token_ok) ==
    IF user_id = NoUser THEN Redirect("login", FALSE)
    ELSE LET user == get_current_user(users, user_id)
         IN IF user.user = NoUser THEN Redirect("login", TRUE)
            ELSE IF user.user \notin Linked THEN Redirect("link_strava", FALSE)
            ELSE IF ~token_ok THEN Redirect("login", TRUE)
            ELSE Go(FALSE)

requires_admin(users, user_id) ==
    IF user_id = NoUser THEN Redirect("login", FALSE)
    ELSE LET user == get_current_user(users, user_id)
         IN IF user.user = NoUser \/ ~users[user.user].is_admin
            THEN Redirect("index", user.cleared)
            ELSE Go(FALSE)

Decorator(route, users, user_id, token_ok) ==
    IF route \in AuthRoutes THEN requires_auth(users, user_id)
    ELSE IF route \in StravaRoutes THEN requires_strava(users, user_id, token_ok)
    ELSE requires_admin(users, user_id)

InFlight(pc) == {s \in Sessions : pc[s].stage # "idle"}

\* A request of session s arrives at a guarded route.
Arrive ==
    \E s \in Sessions, route \in AuthRoutes \cup StravaRoutes \cup AdminRoutes,
       target \in UserIds, token_ok \in BOOLEAN :
        /\ ad_pc[s].stage = "idle"
        /\ route \in AdminOps \/ target = 1
        /\ route \in StravaRoutes \/ token_ok
        /\ ad_pc' = [ad_pc EXCEPT ![s] = Arrived(route, target, token_ok)]
        /\ ad_overlap' = (ad_overlap \/ InFlight(ad_pc) # {})
        /\ UNCHANGED <<ad_users, ad_session, exceptAdmin>>

\* The decorator of the route is evaluated.
Guard ==
    \E s \in Sessions :
        LET p == ad_pc[s]
            d == Decorator(p.route, ad_users, ad_session[s], p.token)
        IN /\ p.stage = "guard"
           /\ ad_session' = IF d.cleared THEN [ad_session EXCEPT ![s] = NoUser]
                            ELSE ad_session
           /\ ad_pc' = [ad_pc EXCEPT ![s] =
                           IF d.go THEN [p EXCEPT !.stage = "handler"]
                           ELSE TurnedAway(d.to, d.cleared)]
           /\ UNCHANGED <<ad_users, ad_overlap, exceptAdmin>>

\* The handler up to its write: get_user(user_id), get_current_user(), the
\* comparison of the two ids and the new value of the toggled field.  A
\* handler that writes nothing ends here (dashboard and admin_dashboard
\* call get_current_user() as well).  current_user["id"] raises TypeError
\* when get_current_user() gives None.
Handle ==
    \E s \in Sessions :
        LET p == ad_pc[s]
            user == ad_users[p.target]
            current_user == get_current_user(ad_users, ad_session[s])
            ends == \/ p.route \notin AdminOps
                    \/ ~user.exists
                    \/ current_user.user = NoUser
                    \/ p.target = current_user.user
            flag == IF p.route = "toggle_disable" THEN user.is_disabled
                    ELSE user.is_admin
        IN /\ p.stage = "handler"
           /\ ad_session' =
                  IF /\ p.route \notin AuthRoutes
                     /\ p.route \in AdminOps => user.exists
                     /\ current_user.cleared
                  THEN [ad_session EXCEPT ![s] = NoUser]
                  ELSE ad_session
           /\ ad_pc' = [ad_pc EXCEPT ![s] =
                           IF ends THEN Idle
                           ELSE [p EXCEPT !.stage = "write", !.new_status = ~flag]]
           /\ UNCHANGED <<ad_users, ad_overlap, exceptAdmin>>

\* update_user_field(user_id, field, new_status) or delete_user(user_id)
Write ==
    \E s \in Sessions :
        LET p == ad_pc[s]
        IN /\ p.stage = "write"
           /\ ad_users' =
                  IF ~ad_users[p.target].exists THEN ad_users
                  ELSE IF p.route = "toggle_disable"
                  THEN [ad_users EXCEPT ![p.target].is_disabled = p.new_status]
                  ELSE IF p.route = "toggle_admin"
                  THEN [ad_users EXCEPT ![p.target].is_admin = p.new_status]
                  ELSE [ad_users EXCEPT ![p.target] = Row(FALSE, FALSE, FALSE)]
           /\ ad_pc' = [ad_pc EXCEPT ![s] = Idle]
           /\ UNCHANGED <<ad_session, ad_overlap, exceptAdmin>>

\* An OAuth callback logs the session in as an existing user:
\* session.clear(); session["user_id"] = user_id
Login ==
    \E s \in Sessions, u \in UserIds :
        /\ ad_pc[s].stage = "idle"
        /\ ad_users[u].exists
        /\ ad_session[s] # u
        /\ ad_session' = [ad_session EXCEPT ![s] = u]
        /\ UNCHANGED <<ad_users, ad_pc, ad_overlap, exceptAdmin>>

\* GET /logout: session.clear()
Logout ==
    \E s \in Sessions :
        /\ ad_pc[s].stage = "idle"
        /\ ad_session[s] # NoUser
        /\ ad_session' = [ad_session EXCEPT ![s] = NoUser]
        /\ UNCHANGED <<ad_users, ad_pc, ad_overlap, exceptAdmin>>

(***************************************************************************)
(* The Google OAuth round trip of app/routes/auth_routes.py: the session   *)
(* keys oauth_state and user_id of two sessions, and the callbacks that    *)
(* anybody can send into a session.                                        *)
(***************************************************************************)
\* A request parameter or session key that is not there (None).
Missing == "<missing>"

\* The values secrets.token_urlsafe(32) gives.
OAuthStates == {"state1", "state2"}
OAuthErrors == {Missing, "access_denied"}
OAuthCodes == {Missing, "code"}
GoogleUsers == {1}

NoCallback ==
    [session |-> "none", error |-> Missing, state |-> Missing, code |-> Missing,
     stored |-> Missing, left |-> Missing, outcome |-> "none", user |-> NoUser]

\* Faulty variant: the stored state is read and left in the session.
GoogleCallbackKeepsState(session_state, error, state, code, exchanged) ==
    IF error # Missing THEN [outcome |-> "error", stored |-> session_state]
    ELSE IF state # session_state
    THEN [outcome |-> "invalid_state", stored |-> session_state]
    ELSE IF code = Missing THEN [outcome |-> "missing_code", stored |-> session_state]
    ELSE IF ~exchanged THEN [outcome |-> "login_failed", stored |-> session_state]
    ELSE [outcome |-> "logged_in", stored |-> Missing]

\* google_callback() up to the login: the outcome and the oauth_state the
\* session is left with.  session.pop("oauth_state", None) removes the
\* stored state; session.clear() at the login removes every key.
google_callback(session_state, error, state, code, exchanged) ==
    IF error # Missing THEN [outcome |-> "error", stored |-> session_state]
    ELSE IF state # session_state
    THEN [outcome |-> "invalid_state", stored |-> Missing]
    ELSE IF code = Missing THEN [outcome |-> "missing_code", stored |-> Missing]
    ELSE IF ~exchanged THEN [outcome |-> "login_failed", stored |-> Missing]
    ELSE [outcome |-> "logged_in", stored |-> Missing]

\* GET /auth/google with GOOGLE_CLIENT_ID configured or not.
GoogleAuthorize ==
    \E s \in Sessions, configured \in BOOLEAN, fresh \in OAuthStates :
        /\ configured
        /\ oa_stored' = [oa_stored EXCEPT ![s] = fresh]
        /\ oa_issued' = [oa_issued EXCEPT ![s] = @ \cup {fresh}]
        /\ UNCHANGED <<oa_user, oa_last, exceptOAuth>>

\* GET /auth/google/callback; exchanged: exchange_google_code and
\* get_google_user_info succeed and give the Google user u.
GoogleCallback ==
    \E s \in Sessions, error \in OAuthErrors, state \in OAuthStates \cup {Missing},
       code \in OAuthCodes, exchanged \in BOOLEAN, u \in GoogleUsers :
        LET r == google_callback(oa_stored[s], error, state, code, exchanged)
        IN /\ exchanged \/ u = 1
           /\ oa_stored' = [oa_stored EXCEPT ![s] = r.stored]
           /\ oa_user' = IF r.outcome = "logged_in"
                         THEN [oa_user EXCEPT ![s] = u] ELSE oa_user
           /\ oa_last' = [session |-> s, error |-> error, state |-> state,
                          code |-> code, stored |-> oa_stored[s],
                          left |-> r.stored,
                          outcome |-> r.outcome,
                          user |-> IF r.outcome = "logged_in" THEN u ELSE NoUser]
           /\ UNCHANGED <<oa_issued, exceptOAuth>>

\* GET /logout: session.clear()
OAuthLogout ==
    \E s \in Sessions :
        /\ oa_stored[s] # Missing \/ oa_user[s] # NoUser
        /\ oa_stored' = [oa_stored EXCEPT ![s] = Missing]
        /\ oa_user' = [oa_user EXCEPT ![s] = NoUser]
        /\ UNCHANGED <<oa_issued, oa_last, exceptOAuth>>

(***************************************************************************)
(* get_valid_token of app/auth.py over the stored tokens of one linked     *)
(* user.  A token is the number of the refresh that issued it, 0 for the   *)
(* tokens stored when the account was linked.                              *)
(***************************************************************************)
MaxNow == 6
MaxRefreshes == 3
TokenLifetime == 2

Tokens(access_token, refresh_token, expires_at) ==
    [access_token |-> access_token, refresh_token |-> refresh_token,
     expires_at |-> expires_at]

\* The functions app/database.py defines.
DatabaseNames ==
    {"get_db_path", "get_db", "close_db", "init_db", "_migrate_db", "get_user",
     "get_user_by_athlete_id", "get_user_by_google_id", "get_user_by_email",
     "get_all_users", "create_strava_user", "update_strava_tokens",
     "create_google_user", "update_google_info", "link_strava_to_user",
     "update_user_field", "delete_user", "get_admin_stats", "check_make_admin"}

\* What the token endpoint answers to a refresh.
RefreshResponses ==
    {"timeout", "http_error", "no_access_token", "tokens", "tokens_with_athlete"}

Granted(resp) == resp \in {"tokens", "tokens_with_athlete"}

\* Who the session's user is.
TokenUsers == {"none", "google_only", "linked"}

NoError == "none"

\* token_expired(expires_at)
token_expired(expires_at, now) == expires_at < now

\* update_strava_tokens(user_id, access_token, refresh_token, expires_at)
update_strava_tokens(stored, data) ==
    Tokens(data.access_token, data.refresh_token, data.expires_at)

\* save_token(data, athlete_id=athlete_id): the exception it raises and the
\* row it leaves.  `from app.database import upsert_user` is its first
\* statement.
save_token(stored, data, with_athlete) ==
    IF "upsert_user" \notin DatabaseNames
    THEN [exc |-> "ImportError", stored |-> stored]
    ELSE IF ~with_athlete
    THEN [exc |-> NoError, stored |-> update_strava_tokens(stored, data)]
    ELSE [exc |-> NoError, stored |-> stored]

\* refresh_access_token(athlete_id, refresh_token), the endpoint answering
\* resp and granting, if it grants, the tokens data.
refresh_access_token(stored, resp, data) ==
    IF resp \in {"timeout", "http_error"}
    THEN [exc |-> "RuntimeError", stored |-> stored]
    ELSE IF resp = "no_access_token"
    THEN [exc |-> "RuntimeError", stored |-> stored]
    ELSE save_token(stored, data, resp = "tokens_with_athlete")

NoTokenCall ==
    [called |-> FALSE, who |-> "none", met |-> Tokens(0, 0, 0), now |-> 0,
     resp |-> "none", data |-> Tokens(0, 0, 0), refreshed |-> FALSE,
     outcome |-> "none", token |-> 0, exc |-> NoError]

\* get_valid_token(): what it returns or raises and the row it leaves.
\* RuntimeError is caught and gives None; any other exception leaves the
\* function.
get_valid_token(who, stored, now, resp, data) ==
    IF who # "linked"
    THEN [outcome |-> "None", token |-> 0, exc |-> NoError, stored |-> stored,
          refreshed |-> FALSE]
    ELSE IF ~token_expired(stored.expires_at, now)
    THEN [outcome |-> "token", token |-> stored.access_token, exc |-> NoError,
          stored |-> stored, refreshed |-> FALSE]
    ELSE LET r == refresh_access_token(stored, resp, data)
         IN IF r.exc = NoError
            THEN [outcome |-> "token", token |-> data.access_token,
                  exc |-> NoError, stored |-> r.stored, refreshed |-> TRUE]
            ELSE IF r.exc = "RuntimeError"
            THEN [outcome |-> "None", token |-> 0, exc |-> NoError,
                  stored |-> r.stored, refreshed |-> TRUE]
            ELSE [outcome |-> "raised", token |-> 0, exc |-> r.exc,
                  stored |-> r.stored, refreshed |-> TRUE]

GetValidToken ==
    \E who \in TokenUsers, resp \in RefreshResponses :
        LET data == Tokens(tk_issued + 1, tk_issued + 1, tk_now + TokenLifetime)
            r == get_valid_token(who, tk_stored, tk_now, resp, data)
            granted == r.refreshed /\ Granted(resp)
        IN /\ granted => tk_issued < MaxRefreshes
           /\ r.refreshed \/ resp = "tokens"
           /\ tk_stored' = r.stored
           /\ tk_issued' = IF granted THEN tk_issued + 1 ELSE tk_issued
           /\ tk_last' = [called |-> TRUE, who |-> who, met |-> tk_stored,
                          now |-> tk_now, resp |-> IF r.refreshed THEN resp ELSE "none",
                          data |-> IF granted THEN data ELSE Tokens(0, 0, 0),
                          refreshed |-> r.refreshed, outcome |-> r.outcome,
                          token |-> r.token, exc |-> r.exc]
           /\ UNCHANGED <<tk_now, exceptToken>>

\* A second passes.
Tick ==
    /\ tk_now < MaxNow
    /\ tk_now' = tk_now + 1
    /\ UNCHANGED <<tk_stored, tk_issued, tk_last, exceptToken>>

(***************************************************************************)
(* Initial state and specifications.                                       *)
(***************************************************************************)
ClientInit ==
    /\ cpc = "idle"
    /\ max_retries = MaxRetries
    /\ attempt = 0
    /\ trace = <<>>
    /\ waits = <<>>
    /\ outcome = NoOutcome

FetchInit ==
    /\ fpc = "idle"
    /\ max_activities = NoCap
    /\ all_activities = <<>>
    /\ before = NoCursor
    /\ iteration = 0
    /\ utc_offset = 0
    /\ requests = 0
    /\ last_params = NoParams
    /\ served = 0
    /\ last_page = 0
    /\ all_full = TRUE
    /\ oversized = FALSE
    /\ short_at = 0
    /\ cap_at = 0
    /\ all_dated = TRUE
    /\ client_failed = FALSE
    /\ client_error = "none"
    /\ fresult = [exc |-> "pending", list |-> <<>>]

SweepInit ==
    /\ history = NoHistory
    /\ cursors = <<>>

KeyInit ==
    /\ kcall = NoKeyCall
    /\ kprev = NoKeyCall

RouteInit ==
    /\ cache = {}
    /\ request = NoRequest
    /\ response = NoResponse

AggInit ==
    /\ agg_call = NoAggCall
    /\ agg_result = <<>>

SumInit ==
    /\ sum_call = NoSumCall
    /\ sum_result = <<>>

FltInit ==
    /\ flt_call = NoFltCall
    /\ flt_result = <<>>

DateInit ==
    /\ dr_call = NoDateCall
    /\ dr_result = <<>>

ShareInit ==
    /\ sh_cache = {}
    /\ sh_pending = [a \in Athletes |-> NoPending]
    /\ sh_read = [a \in Athletes |-> {}]
    /\ sh_written = [a \in Athletes |-> {}]
    /\ sh_served = [a \in Athletes |-> {}]

\* Every account exists and is an admin that is not disabled; nobody is
\* logged in.
AdminInit ==
    /\ ad_users = [u \in UserIds |-> Row(TRUE, TRUE, FALSE)]
    /\ ad_session = [s \in Sessions |-> NoUser]
    /\ ad_pc = [s \in Sessions |-> Idle]
    /\ ad_overlap = FALSE

OAuthInit ==
    /\ oa_stored = [s \in Sessions |-> Missing]
    /\ oa_user = [s \in Sessions |-> NoUser]
    /\ oa_issued = [s \in Sessions |-> {}]
    /\ oa_last = NoCallback

\* The tokens stored when the account was linked.
TokenInit ==
    /\ tk_stored = Tokens(0, 0, TokenLifetime)
    /\ tk_now = 0
    /\ tk_issued = 0
    /\ tk_last = NoTokenCall

Init ==
    /\ ClientInit /\ FetchInit /\ SweepInit /\ KeyInit /\ RouteInit
    /\ AggInit /\ SumInit /\ FltInit
    /\ DateInit
    /\ ShareInit
    /\ AdminInit
    /\ OAuthInit
    /\ TokenInit

ClientNext == MakeRequestCall \/ MakeRequestAttempt

FetchNext == FetchCall \/ FetchStep

SweepNext == SweepCall \/ SweepStep

SpecClient == Init /\ [][ClientNext]_vars

SpecFetch == Init /\ [][FetchNext]_vars

SpecSweep == Init /\ [][SweepNext]_vars

SpecKey == Init /\ [][GenerateKey]_vars

RouteNext ==
    \/ GetActivities
    \/ GetActivity
    \/ GetStats
    \/ GetWeeklyStats
    \/ GetMonthlyStats
    \/ RefreshData
    \/ Expire

SpecRoute == Init /\ [][RouteNext]_vars

StatsNext ==
    \/ CalculateTotals
    \/ CalculateAverages
    \/ FindPersonalRecords
    \/ GroupByActivityType

SpecStats == Init /\ [][StatsNext]_vars

SummaryNext ==
    \/ CalculateWeeklySummary
    \/ CalculateMonthlySummary
    \/ CalculateYearlySummary

SpecSummary == Init /\ [][SummaryNext]_vars

SpecFilter == Init /\ [][FilterActivities]_vars

SpecDates == Init /\ [][ParseDateRange]_vars

ShareNext ==
    \/ ShareLookup
    \/ ShareStore
    \/ ShareFail
    \/ ShareRefresh
    \/ ShareExpire

SpecShare == Init /\ [][ShareNext]_vars

AdminNext ==
    \/ Arrive
    \/ Guard
    \/ Handle
    \/ Write
    \/ Login
    \/ Logout

SpecAdmin == Init /\ [][AdminNext]_vars

OAuthNext ==
    \/ GoogleAuthorize
    \/ GoogleCallback
    \/ OAuthLogout

SpecOAuth == Init /\ [][OAuthNext]_vars

TokenNext == GetValidToken \/ Tick

SpecToken == Init /\ [][TokenNext]_vars

Next ==
    \/ ClientNext \/ FetchNext \/ SweepNext \/ GenerateKey \/ RouteNext
    \/ StatsNext \/ SummaryNext \/ FilterActivities
    \/ ParseDateRange
    \/ ShareNext
    \/ AdminNext
    \/ OAuthNext
    \/ TokenNext

Spec == Init /\ [][Next]_vars

(***************************************************************************)
(* Properties of StravaAPI._make_request (checked under SpecClient).       *)
(***************************************************************************)
IsResponse(r) == r.kind = "response"
Is429(r) == IsResponse(r) /\ r.status = 429
Is401(r) == IsResponse(r) /\ r.status = 401
Is5xx(r) == IsResponse(r) /\ r.status >= 500 /\ r.status <= 599
IsTransport(r) == r.kind \in {"timeout", "connection"}
IsTransient(r) == IsTransport(r) \/ Is5xx(r)

RECURSIVE SumSeq(_)
SumSeq(w) == IF w = <<>> THEN 0 ELSE w[1] + SumSeq(Tail(w))

\* C1: one call makes at most 3 HTTP attempts, and the attempt that meets a
\* 429 or a 401 is the last one of the call (so a call whose first answer
\* is 429 or 401 makes exactly 1 attempt).
C1_AttemptBound ==
    /\ Len(trace) <= 3
    /\ \A i \in 1..Len(trace) :
           (Is429(trace[i]) \/ Is401(trace[i]))
               => (i = Len(trace) /\ cpc = "done")

\* Three attempts that all met a 5xx, a timeout or a connection failure.
C1_Witness ==
    /\ cpc = "done"
    /\ Len(trace) = 3
    /\ \A i \in 1..3 : IsTransient(trace[i])

\* C2 (as claimed): an attempt that receives 429 ends the call at once with
\* RateLimitError whose retry_after is the Retry-After header value, or 60
\* when the header is absent; nothing is retried.
C2_RateLimitedAsClaimed ==
    \A i \in 1..Len(trace) :
        Is429(trace[i]) =>
            /\ i = Len(trace)
            /\ cpc = "done"
            /\ outcome.exc = "RateLimitError"
            /\ outcome.retry_after =
                   IF trace[i].retryAfter.present
                   THEN DigitsValue(trace[i].retryAfter.value)
                   ELSE 60

\* What the 429 branch does do: the same, for a Retry-After header that is
\* absent or a decimal integer.
C2_IntegerRetryAfter ==
    \A i \in 1..Len(trace) :
        (Is429(trace[i])
         /\ (trace[i].retryAfter.present
                 => ParseInt(trace[i].retryAfter.value).ok))
            => /\ i = Len(trace)
               /\ cpc = "done"
               /\ outcome.exc = "RateLimitError"
               /\ outcome.retry_after =
                      IF trace[i].retryAfter.present
                      THEN DigitsValue(trace[i].retryAfter.value)
                      ELSE 60

\* The answers C3 lists: 2xx with each rate-limit header present (as
\* "usage,limit") or absent and a JSON body, 429 with an integer Retry-After
\* or none, 401, other 4xx, 5xx, timeout, connection failure.
InC3Alphabet(r) ==
    \/ IsTransport(r)
    \/ Is5xx(r)
    \/ Is401(r)
    \/ IsResponse(r) /\ r.status \in 400..499 /\ r.status # 429
    \/ Is429(r) /\ (r.retryAfter.present => ParseInt(r.retryAfter.value).ok)
    \/ /\ IsResponse(r) /\ r.status \in 200..299 /\ r.json
       /\ r.limit \in {NoHdr, WellFormedRate}
       /\ r.usage \in {NoHdr, WellFormedRate}

\* C3 (as claimed): for every sequence of the listed answers the call ends
\* with the decoded body, RateLimitError, AuthenticationError or a plain
\* StravaAPIError, and with nothing else.
C3_FourOutcomesAsClaimed ==
    (cpc = "done" /\ \A i \in 1..Len(trace) : InC3Alphabet(trace[i]))
        => outcome.exc \in
               {"none", "RateLimitError", "AuthenticationError", "StravaAPIError"}

\* What the client does do: the four outcomes, when every 2xx answer
\* carries both rate-limit headers.
C3_FourOutcomesWithHeaders ==
    (/\ cpc = "done"
     /\ \A i \in 1..Len(trace) :
            /\ InC3Alphabet(trace[i])
            /\ trace[i].status \in 200..299
                   => (trace[i].limit.present /\ trace[i].usage.present))
        => outcome.exc \in
               {"none", "RateLimitError", "AuthenticationError", "StravaAPIError"}

\* C4: an attempt that receives 401 ends the call at once with
\* AuthenticationError, whatever retried failures came before it.
C4_AuthFailure ==
    \A i \in 1..Len(trace) :
        Is401(trace[i]) =>
            /\ i = Len(trace)
            /\ cpc = "done"
            /\ outcome.exc = "AuthenticationError"

\* A 401 met on the third attempt, after two retried failures.
C4_Witness ==
    /\ Len(trace) = 3
    /\ Is401(trace[3])
    /\ IsTransient(trace[1]) /\ IsTransient(trace[2])
    /\ Len(waits) = 2

\* The call ended at attempt i with StravaAPIError carrying the status of
\* that attempt, and no sleep followed the attempt.
EndsWithApiErrorAt(i) ==
    /\ i = Len(trace)
    /\ cpc = "done"
    /\ outcome.exc = "StravaAPIError"
    /\ ParseInt(outcome.code) = [ok |-> TRUE, val |-> trace[i].status]
    /\ Len(waits) = i - 1

C6_Backoff ==
    /\ \A k \in 1..Len(trace) :
           IsTransient(trace[k]) =>
               IF k < 3
               THEN /\ Len(waits) >= k
                    /\ waits[k] = IF IsTransport(trace[k]) THEN 1 * k ELSE 2 * k
                    /\ (k = Len(trace) => (cpc = "running" /\ attempt = k
                                           /\ attempt < max_retries))
               ELSE /\ Len(waits) = 2
                    /\ cpc = "done"
                    /\ outcome.exc = "StravaAPIError"
    /\ Len(waits) <= Len(trace)
    /\ SumSeq(waits) <= 6

\* Two 5xx answers slept 2 s and 4 s, then a third failure ended the call.
C6_Witness ==
    /\ Len(trace) = 3
    /\ Is5xx(trace[1]) /\ Is5xx(trace[2]) /\ IsTransport(trace[3])
    /\ waits = <<2, 4>>
    /\ outcome.exc = "StravaAPIError"

(***************************************************************************)
(* Properties of fetch_all_activities (checked under SpecFetch).           *)
(***************************************************************************)
\* Every record received so far, in the order received.
Received == Records(1, served)

Ended == fpc = "done"

\* C7 (as claimed): no page is requested after the first page that is empty
\* or holds fewer than 200 records, and the result holds every record of
\* all pages received up to and including that page.
C7_ShortPageAsClaimed ==
    short_at # 0 =>
        /\ Ended
        /\ requests = short_at
        /\ fresult = FetchReturn(Received)

\* C7 (amended): as claimed, except that when a positive cap was given and
\* the accumulation has reached it the result is the first max_activities
\* of those records.
C7_ShortPage ==
    short_at # 0 =>
        /\ Ended
        /\ requests = short_at
        /\ fresult = FetchReturn(
               IF max_activities > 0 /\ served >= max_activities
               THEN Prefix(Received, max_activities)
               ELSE Received)

\* Pages of 200, 200 and 50 records with no cap: 450 records, 3 requests.
C7_Witness ==
    /\ max_activities = NoCap
    /\ requests = 3
    /\ short_at = 3
    /\ last_page = 50
    /\ served = 450
    /\ fresult = FetchReturn(<<<<1, 450>>>>)

\* C8 (as claimed): with a cap given, once the accumulation reaches or
\* exceeds the cap after some page the run returns the first cap records
\* (exactly cap of them) and requests no further page, for every cap value.
C8_CapAsClaimed ==
    cap_at # 0 =>
        /\ Ended
        /\ requests = cap_at
        /\ fresult = FetchReturn(Prefix(Received, max_activities))
        /\ ListLen(fresult.list) = max_activities

\* What the cap check does do: the same, for every positive cap.
C8_PositiveCap ==
    (cap_at # 0 /\ max_activities > 0) =>
        /\ Ended
        /\ requests = cap_at
        /\ fresult = FetchReturn(Prefix(Received, max_activities))
        /\ ListLen(fresult.list) = max_activities

KeepsReturningFullPages ==
    /\ max_activities = NoCap
    /\ all_full
    /\ all_dated
    /\ ~client_failed

\* C10: while the upstream keeps returning full pages the run goes on
\* asking until it has made exactly 100 requests, then returns the 20,000
\* accumulated records as an ordinary list: no exception, nothing else.
C10_SilentCeiling ==
    /\ requests <= 100
    /\ KeepsReturningFullPages =>
           /\ (fpc = "loop" /\ requests < 100) =>
                  (iteration = requests /\ WhileContinues(iteration, MaxIterations))
           /\ Ended =>
                  /\ requests = 100
                  /\ fresult = FetchReturn(<<<<1, 20000>>>>)

\* The run has returned after 100 full pages.
C10_Witness ==
    /\ KeepsReturningFullPages
    /\ Ended
    /\ requests = 100
    /\ ListLen(fresult.list) = 20000

\* C13: when the client raises RateLimitError, AuthenticationError or
\* StravaAPIError on a page request, the first or a later one, the run ends
\* there with that same exception and returns no list, whatever it had
\* accumulated.
C13_ErrorsPropagate ==
    client_error \in {"RateLimitError", "AuthenticationError", "StravaAPIError"} =>
        /\ Ended
        /\ client_failed
        /\ fresult = [exc |-> client_error, list |-> <<>>]

\* The third page request met a rate limit after 400 records had been
\* accumulated.
C13_Witness ==
    /\ client_error = "RateLimitError"
    /\ requests = 3
    /\ ListLen(all_activities) = 400
    /\ fresult = [exc |-> "RateLimitError", list |-> <<>>]

(***************************************************************************)
(* Properties of fetch_all_activities against a history (SpecSweep).       *)
(***************************************************************************)
\* C11 (as claimed): of two consecutive page requests that both carry a
\* before cursor the later cursor is strictly smaller than the earlier, and
\* no cursor is greater than a cursor sent before it.
C11_CursorDecreasesAsClaimed ==
    /\ \A i \in 1..(Len(cursors) - 1) :
           (cursors[i] # Omitted /\ cursors[i + 1] # Omitted)
               => cursors[i + 1] < cursors[i]
    /\ \A i, j \in 1..Len(cursors) :
           (i < j /\ cursors[i] # Omitted /\ cursors[j] # Omitted)
               => cursors[j] <= cursors[i]

\* What the cursor update does do: the same, in a process whose local time
\* is UTC or ahead of it.
C11_CursorDecreasesEastOfUtc ==
    utc_offset >= 0 => C11_CursorDecreasesAsClaimed

\* C12 (as claimed): a run without a cap over a history served newest
\* first under an exclusive before bound returns every record of the
\* history exactly once, in newest-first order, ties in start time included.
C12_CompleteAsClaimed ==
    (Ended /\ max_activities = NoCap /\ TotalRecords(history) <= 20000) =>
        fresult = FetchReturn(Records(1, TotalRecords(history)))

(***************************************************************************)
(* Properties of the route handlers (checked under SpecRoute).             *)
(***************************************************************************)
CoreRoutes == {"activities", "stats", "weekly", "monthly"}

\* The handler's try block raised an exception of class cls.
Met(cls) == request.exc.cls = cls

\* C14 (as claimed): each of the four core entry points answers a client
\* RateLimitError with a rate-limit error that carries the exception's
\* retry-after seconds, and a client AuthenticationError with an
\* authentication error; neither is the generic upstream error.
C14_DistinctErrorsAsClaimed ==
    request.route \in CoreRoutes =>
        /\ Met("RateLimitError") =>
               /\ response.kind = "error"
               /\ response.type = "rate_limit"
               /\ response.retry_after = request.exc.retry_after
        /\ Met("AuthenticationError") =>
               /\ response.kind = "error"
               /\ response.type = "auth_error"

\* What the handlers do do: the filtered activity list alone makes the
\* distinction.
C14_ListDistinctErrors ==
    request.route = "activities" =>
        /\ Met("RateLimitError") =>
               /\ response.type = "rate_limit"
               /\ response.status = 429
               /\ response.retry_after = request.exc.retry_after
        /\ Met("AuthenticationError") =>
               /\ response.type = "auth_error"
               /\ response.status = 401

\* C15: whatever is raised while a handler runs (session lookup, cache
\* access, upstream call or sweep, aggregation, filtering), the handler ends
\* with a success response or with an error response that has a type and a
\* message; no exception leaves it.
C15_NoRawException ==
    request.route # "none" =>
        /\ response.kind \in {"success", "error"}
        /\ response.kind = "error" =>
               /\ response.type \in {"rate_limit", "auth_error", "api_error",
                                     "server_error"}
               /\ response.message # ""
        /\ request.exc # NoExc => response.kind = "error"

\* The aggregation raised a TypeError while the stats were computed, and the
\* handler answered with a server error.
C15_Witness ==
    /\ request.route = "stats"
    /\ request.exc = ComputeError
    /\ response = error_response("Failed to calculate statistics",
                                 "server_error", 500, Omitted)

StatsKey == get_stats_cache_key(RouteAthlete)

\* The statistics handler got past the session check and the cache lookup
\* did not raise.
StatsLookedUp ==
    /\ request'.route = "stats"
    /\ request'.env.session = "ok"
    /\ request'.env.stage # "cache"

\* C16: a statistics request that finds the stats key in the cache answers
\* with the cached value, makes no upstream request and leaves the cache as
\* it is; one that does not find it and succeeds has made the sweep and
\* answers with the bundle it has stored under the stats key (so the next
\* request, unless the entry expired or the cache was cleared, finds it).
C16_StatsCached ==
    [][StatsLookedUp =>
           IF CacheGet(cache, StatsKey) # None
           THEN /\ request'.hit
                /\ request'.upstream = 0
                /\ response' = success_response(CacheGet(cache, StatsKey))
                /\ cache' = cache
           ELSE /\ ~request'.hit
                /\ request'.upstream >= 1
                /\ response'.kind = "success" =>
                       /\ response'.data.kind = "stats"
                       /\ CacheGet(cache', StatsKey) = response'.data
                       /\ \E e \in cache' :
                              e.key = StatsKey /\ e.timeout = StatsTimeout]_vars

\* A statistics request answered from the cache: the bundle over both
\* activities, no upstream request.
C16_Witness ==
    /\ request.route = "stats"
    /\ request.hit
    /\ request.upstream = 0
    /\ response = success_response(Value("stats", UpstreamActivities))
    /\ CacheGet(cache, StatsKey) = response.data

\* Activity i satisfies every predicate the request supplied.
Satisfies(i, f) ==
    /\ f.type # NoText => Activity(i).type = f.type
    /\ f.start_date.form = "valid" => Activity(i).day >= f.start_date.day
    /\ f.end_date.form = "valid" => Activity(i).day <= f.end_date.day
    /\ f.min_distance # Omitted =>
           Activity(i).distance >= f.min_distance * MetresPerKm
    /\ f.max_distance # Omitted =>
           Activity(i).distance <= f.max_distance * MetresPerKm
    /\ f.search # <<>> => Contains(Lower(f.search), Lower(Activity(i).name))

Returned_ids == response.data.ids

\* C17 (as claimed): every activity a filtered-list request returns
\* satisfies all the predicates of that request, boundary values such as 0
\* included, whether the page was fetched for it or read from the cache.
C17_FilteredAsClaimed ==
    (request.route = "activities" /\ response.kind = "success") =>
        \A n \in 1..Len(Returned_ids) : Satisfies(Returned_ids[n], request.filters)

\* What the handler does do: the type, the minimum distance, the name
\* search, and a maximum distance other than 0 are always applied.
C17_AppliedFilters ==
    (request.route = "activities" /\ response.kind = "success") =>
        \A n \in 1..Len(Returned_ids) :
            Satisfies(Returned_ids[n],
                      [request.filters EXCEPT
                           !.start_date = NoDate, !.end_date = NoDate,
                           !.max_distance = IF @ = 0 THEN Omitted ELSE @])

\* The key a resource's requests are to use: generate_cache_key with the
\* resource's prefix.
HasKeyForm(k, prefix) ==
    \E kwargs \in KeyKwargs : k = generate_cache_key(prefix, RouteAthlete, kwargs)

PrefixOf(route) ==
    IF route = "activities" THEN S_activities
    ELSE IF route = "activity" THEN S_activity
    ELSE S_stats

\* C20 (as claimed): every cache key a list, detail or stats request reads
\* or writes is "strava:<athlete>:<prefix>:<hash>", the hash being the
\* digest generate_cache_key makes of the sorted parameters.
C20_KeyFormAsClaimed ==
    request.route \in {"activities", "activity", "stats"} =>
        \A k \in request.keys : HasKeyForm(k, PrefixOf(request.route))

\* What the handlers do do: the list and the stats keys have that form.
C20_ListAndStatsKeyForm ==
    request.route \in {"activities", "stats"} =>
        \A k \in request.keys : HasKeyForm(k, PrefixOf(request.route))

(***************************************************************************)
(* Properties of generate_cache_key (checked under SpecKey).               *)
(***************************************************************************)
\* The parameter set of a call, whatever the order it was passed in.
ParamSet(c) == {c.kwargs[i] : i \in 1..Len(c.kwargs)}

BothCalled == kprev.called /\ kcall.called

\* C18: two calls with the same prefix, the same athlete and the same
\* parameter set give the same key, whether the parameters were passed in
\* the same order or not.
C18_OrderIndependent ==
    (/\ BothCalled
     /\ kprev.prefix = kcall.prefix
     /\ kprev.athlete_id = kcall.athlete_id
     /\ ParamSet(kprev) = ParamSet(kcall)) => kprev.key = kcall.key

\* key("stats", 7, b=2, a=1) followed by key("stats", 7, a=1, b=2).
C18_Witness ==
    /\ kprev = KeyCall(S_stats, 7, <<<<S_b, 2>>, <<S_a, 1>>>>)
    /\ kcall = KeyCall(S_stats, 7, <<<<S_a, 1>>, <<S_b, 2>>>>)
    /\ kprev.key = kcall.key

\* C19: two calls with the same athlete and the same parameter set but
\* different prefixes among "activities", "activity" and "stats" give
\* different keys.
C19_PrefixSeparates ==
    (/\ BothCalled
     /\ kprev.prefix # kcall.prefix
     /\ kprev.athlete_id = kcall.athlete_id
     /\ ParamSet(kprev) = ParamSet(kcall)) => kprev.key # kcall.key

\* key("activities", 12, page=1, per_page=30) followed by
\* key("activity", 12, page=1, per_page=30).
C19_Witness ==
    /\ kprev = KeyCall(S_activities, 12, <<<<S_page, 1>>, <<S_per_page, 30>>>>)
    /\ kcall = KeyCall(S_activity, 12, <<<<S_page, 1>>, <<S_per_page, 30>>>>)
    /\ kprev.key # kcall.key

(***************************************************************************)
(* Claims about the aggregation functions (SpecStats).                     *)
(***************************************************************************)
Called(fn) == agg_call.fn = fn

\* The sum, over the records of a list, of a key that counts 0 where absent.
SumKey(activities, Key(_)) == SumSeq(KeysOf(activities, Key))

\* C21: calculate_totals returns the sums of distance, moving_time and
\* total_elevation_gain over the list, an absent key counting 0, and
\* activity_count equal to the length of the list.
C21_TotalsAreSums ==
    Called("calculate_totals") =>
        LET l == agg_call.activities
        IN  /\ agg_result.total_distance = SumKey(l, DistanceKey)
            /\ agg_result.total_time = SumKey(l, DurationKey)
            /\ agg_result.total_elevation = SumKey(l, ElevationKey)
            /\ agg_result.activity_count = Len(l)

\* The 10000 m / 3000 s run and the 20000 m / 3600 s ride, neither with an
\* elevation key.
C21_Witness ==
    /\ Called("calculate_totals")
    /\ agg_call.activities =
           <<StatActivity(1, T_Run, 10000, 3000, Omitted),
             StatActivity(2, T_Ride, 20000, 3600, Omitted)>>
    /\ agg_result =
           [total_distance |-> 30000, total_time |-> 6600,
            total_elevation |-> 0, activity_count |-> 2]

\* C22: on the empty list calculate_averages returns four zeros and
\* find_personal_records four None values; neither raises.
C22_EmptyInput ==
    agg_call.activities = <<>> =>
        /\ Called("calculate_averages") =>
               /\ agg_result.avg_distance = Num(0)
               /\ agg_result.avg_speed = Num(0)
               /\ agg_result.avg_pace = Num(0)
               /\ agg_result.avg_duration = Num(0)
        /\ Called("find_personal_records") =>
               /\ agg_result.longest_distance = NoActivity
               /\ agg_result.fastest_pace = NoActivity
               /\ agg_result.highest_elevation = NoActivity
               /\ agg_result.longest_duration = NoActivity

C22_Witness ==
    /\ Called("calculate_averages")
    /\ agg_call.activities = <<>>
    /\ agg_result.avg_distance = Num(0)
    /\ agg_result.avg_pace = Num(0)

\* C23: on a non-empty list calculate_averages raises no division error;
\* avg_speed is 0 when the total time is 0 and total distance / total time
\* otherwise, avg_pace is 0 when the total distance is 0 and
\* total time / (total distance / 1000) otherwise, avg_distance is
\* total distance / count and avg_duration is total time / count.
C23_AveragesDefined ==
    (Called("calculate_averages") /\ agg_call.activities # <<>>) =>
        LET l == agg_call.activities
            distance == SumKey(l, DistanceKey)
            time == SumKey(l, DurationKey)
            values == {agg_result.avg_distance, agg_result.avg_speed,
                       agg_result.avg_pace, agg_result.avg_duration}
        IN  /\ ZeroDivisionError \notin values
            /\ agg_result.avg_speed =
                   IF time = 0 THEN Num(0) ELSE Frac(distance, time)
            /\ agg_result.avg_pace =
                   IF distance = 0 THEN Num(0) ELSE Frac(1000 * time, distance)
            /\ agg_result.avg_distance = Frac(distance, Len(l))
            /\ agg_result.avg_duration = Frac(time, Len(l))

\* A list of positive total distance and total time 0.
C23_Witness ==
    /\ Called("calculate_averages")
    /\ agg_call.activities # <<>>
    /\ SumKey(agg_call.activities, DurationKey) = 0
    /\ SumKey(agg_call.activities, DistanceKey) > 0
    /\ agg_result.avg_speed = Num(0)

\* The first position of a list whose key is the greatest of the list.
FirstGreatest(activities, Key(_)) ==
    CHOOSE i \in DOMAIN activities :
        /\ \A j \in DOMAIN activities : Key(activities[j]) <= Key(activities[i])
        /\ \A j \in 1..(i - 1) : Key(activities[j]) < Key(activities[i])

\* C24: on a non-empty list longest_distance, highest_elevation and
\* longest_duration are each an activity of the list whose field (0 where
\* absent) is the greatest of the list, the first such activity in list
\* order.
C24_RecordsAreFirstGreatest ==
    (Called("find_personal_records") /\ agg_call.activities # <<>>) =>
        LET l == agg_call.activities
        IN  /\ agg_result.longest_distance = l[FirstGreatest(l, DistanceKey)]
            /\ agg_result.highest_elevation = l[FirstGreatest(l, ElevationKey)]
            /\ agg_result.longest_duration = l[FirstGreatest(l, DurationKey)]

\* Two rides tie on distance and on duration; the earlier one is returned.
C24_Witness ==
    /\ Called("find_personal_records")
    /\ Len(agg_call.activities) >= 2
    /\ agg_call.activities[1] = StatActivity(2, T_Ride, 20000, 3600, Omitted)
    /\ agg_call.activities[2] = StatActivity(4, T_Ride, 20000, 3600, 100)
    /\ agg_result.longest_distance = agg_call.activities[1]
    /\ agg_result.highest_elevation = agg_call.activities[2]

\* The positions of the runs with a positive distance and moving time.
Eligible(activities) ==
    {i \in DOMAIN activities :
        /\ activities[i].type = "Run"
        /\ activities[i].distance > 0
        /\ activities[i].moving_time > 0}

\* C25: fastest_pace is a Run with distance > 0 and moving_time > 0 whose
\* moving_time / (distance / 1000) is the least among such activities, and
\* None exactly when the list has no such activity.
C25_FastestPaceAmongRuns ==
    Called("find_personal_records") =>
        LET l == agg_call.activities
            E == Eligible(l)
        IN  IF E = {} THEN agg_result.fastest_pace = NoActivity
            ELSE \E i \in E :
                    /\ agg_result.fastest_pace = l[i]
                    /\ \A j \in E :
                           l[i].moving_time * l[j].distance
                               <= l[j].moving_time * l[i].distance

\* A ride is faster than every run of the list, and a run is returned.
C25_Witness ==
    /\ Called("find_personal_records")
    /\ agg_call.activities =
           <<StatActivity(2, T_Ride, 20000, 3600, Omitted),
             StatActivity(1, T_Run, 10000, 3000, Omitted),
             StatActivity(6, T_Run, 10000, 2500, 50)>>
    /\ agg_result.fastest_pace = StatActivity(6, T_Run, 10000, 2500, 50)

\* The bucket an activity belongs to.
BucketOf(a) == IF a.type \in {"Run", "Ride"} THEN a.type ELSE "Unknown"

Members(activities, label) ==
    SelectSeq(activities, LAMBDA a : BucketOf(a) = label)

RECURSIVE SumCounts(_, _)
SumCounts(by_type, labels) ==
    IF labels = {} THEN 0
    ELSE LET label == CHOOSE x \in labels : TRUE
         IN  by_type[label].count + SumCounts(by_type, labels \ {label})

\* C26: group_by_activity_type partitions the list by type label, the
\* activities without a type under "Unknown"; the bucket counts add up to
\* the length of the list and each bucket's totals are calculate_totals
\* over its members.
C26_GroupsPartition ==
    Called("group_by_activity_type") =>
        LET l == agg_call.activities
        IN  /\ DOMAIN agg_result = {BucketOf(l[i]) : i \in DOMAIN l}
            /\ SumCounts(agg_result, DOMAIN agg_result) = Len(l)
            /\ \A label \in DOMAIN agg_result :
                   LET totals == calculate_totals(Members(l, label))
                   IN  /\ agg_result[label].count = Len(Members(l, label))
                       /\ agg_result[label].total_distance = totals.total_distance
                       /\ agg_result[label].total_time = totals.total_time
                       /\ agg_result[label].total_elevation = totals.total_elevation

\* Two activities without a type, among typed ones.
C26_Witness ==
    /\ Called("group_by_activity_type")
    /\ Len(agg_call.activities) = 3
    /\ DOMAIN agg_result = {"Unknown", "Run"}
    /\ agg_result["Unknown"].count = 2
    /\ agg_result["Run"].count = 1

(***************************************************************************)
(* Claims about the calendar summaries (SpecSummary).                      *)
(***************************************************************************)
Summarised(fn) == sum_call.fn = fn

StartOf(a) == strptime(a.start_date)

\* Midnight of the Monday of the week an instant is in, in hours.
MondayOf(dt) == 24 * (Ordinal(dt) - (Ordinal(dt) % 7))

\* How many activities of a list start in [from, to).
Starting(activities, from, to) ==
    Cardinality({i \in DOMAIN activities :
                    from <= Hours(StartOf(activities[i]))
                    /\ Hours(StartOf(activities[i])) < to})

\* C27: calculate_weekly_summary returns N windows, oldest first, each a
\* calendar week from Monday 00:00, contiguous, the newest ending where the
\* current week starts; each window counts the activities that start in its
\* calendar week, and an activity of the current week is counted in none.
C27_CalendarWeeksAsClaimed ==
    Summarised("calculate_weekly_summary") =>
        LET N == sum_call.n
            l == sum_call.activities
            this_week == MondayOf(sum_call.today)
        IN  /\ Len(sum_result) = N
            /\ \A k \in 1..N :
                   LET from == this_week - 168 * (N - k + 1)
                   IN  /\ sum_result[k].week_start = from
                       /\ sum_result[k].week_end = from + 168
                       /\ sum_result[k].activity_count
                              = Starting(l, from, from + 168)

\* What the windows are: N windows of seven days, oldest first, contiguous,
\* each from a Monday at today's time of day, the newest ending on the
\* Monday of the current week at that time of day; each window counts the
\* activities that start in it.
C27_WindowsKeepTimeOfDay ==
    Summarised("calculate_weekly_summary") =>
        LET N == sum_call.n
            l == sum_call.activities
            newest_end == MondayOf(sum_call.today) + sum_call.today.hour
        IN  /\ Len(sum_result) = N
            /\ \A k \in 1..N :
                   LET from == newest_end - 168 * (N - k + 1)
                   IN  /\ sum_result[k].week_start = from
                       /\ sum_result[k].week_end = from + 168
                       /\ sum_result[k].activity_count
                              = Starting(l, from, from + 168)

\* Asked on Thursday 5 November 2026 at 15:00 for one week: the window
\* runs from Monday 26 October 15:00, so the activity of Monday 2 November
\* 08:00 (the current week) is counted and the activity of Monday
\* 26 October 08:00 (last week) is not.
C27_MondayMorningMisplaced ==
    /\ Summarised("calculate_weekly_summary")
    /\ sum_call.n = 1
    /\ sum_call.today = Datetime(2026, 11, 5, 15)
    /\ sum_call.activities =
           <<DatedActivity(1, Datetime(2026, 11, 2, 8)),
             DatedActivity(3, Datetime(2026, 10, 26, 8))>>
    /\ sum_result[1].week_start = Hours(Datetime(2026, 10, 26, 15))
    /\ sum_result[1].activity_count = 1
    /\ sum_result[1].total_distance = 1000

\* Asked at midnight, the windows are the calendar weeks.
C27_CalendarWeeksAtMidnight ==
    (Summarised("calculate_weekly_summary") /\ sum_call.today.hour = 0) =>
        \A k \in 1..Len(sum_result) :
            /\ sum_result[k].week_start
                   = MondayOf(sum_call.today) - 168 * (Len(sum_result) - k + 1)
            /\ sum_result[k].activity_count
                   = Starting(sum_call.activities, sum_result[k].week_start,
                              sum_result[k].week_start + 168)

\* The months since year 0 of a (year, month).
MonthIndex(year, month) == 12 * year + month - 1

InMonth(a, bucket) ==
    StartOf(a).year = bucket.year /\ StartOf(a).month = bucket.month

\* C28: calculate_monthly_summary returns N buckets, oldest first, that are
\* the N consecutive calendar months ending with the current month, each a
\* valid (year, month); each bucket counts the activities that start in its
\* month, so an activity is counted in at most one bucket.
C28_ConsecutiveMonths ==
    Summarised("calculate_monthly_summary") =>
        LET N == sum_call.n
            l == sum_call.activities
            current == MonthIndex(sum_call.today.year, sum_call.today.month)
        IN  /\ Len(sum_result) = N
            /\ \A k \in 1..N :
                   /\ sum_result[k].month \in 1..12
                   /\ MonthIndex(sum_result[k].year, sum_result[k].month)
                          = current - (N - k)
                   /\ sum_result[k].activity_count
                          = Cardinality({i \in DOMAIN l :
                                            InMonth(l[i], sum_result[k])})
            /\ \A i \in DOMAIN l :
                   Cardinality({k \in 1..N : InMonth(l[i], sum_result[k])}) <= 1

\* 25 months asked for in January 2026: the oldest bucket is January 2024,
\* two year boundaries back, and holds the activity of 31 January 2024.
C28_Witness ==
    /\ Summarised("calculate_monthly_summary")
    /\ sum_call.n = 25
    /\ sum_call.today.year = 2026 /\ sum_call.today.month = 1
    /\ sum_result[1].year = 2024 /\ sum_result[1].month = 1
    /\ sum_result[1].activity_count = 1
    /\ sum_result[25].year = 2026 /\ sum_result[25].month = 1

\* C29: calculate_yearly_summary returns one bucket per year in which an
\* activity starts, in ascending order of year and none for another year;
\* each bucket counts the activities of its year and the counts add up to
\* the length of the list.
C29_OneBucketPerYear ==
    Summarised("calculate_yearly_summary") =>
        LET l == sum_call.activities
            counts == [k \in DOMAIN sum_result |-> sum_result[k].activity_count]
        IN  /\ \A j, k \in DOMAIN sum_result :
                   j < k => sum_result[j].year < sum_result[k].year
            /\ {sum_result[k].year : k \in DOMAIN sum_result}
                   = {StartOf(l[i]).year : i \in DOMAIN l}
            /\ \A k \in DOMAIN sum_result :
                   sum_result[k].activity_count
                       = Cardinality({i \in DOMAIN l :
                                         StartOf(l[i]).year = sum_result[k].year})
            /\ SumSeq(counts) = Len(l)

\* An activity of 2026 listed before one of 2024: the bucket of 2024 is
\* first and there is no bucket for 2025.
C29_Witness ==
    /\ Summarised("calculate_yearly_summary")
    /\ Len(sum_call.activities) = 2
    /\ StartOf(sum_call.activities[1]).year = 2026
    /\ StartOf(sum_call.activities[2]).year = 2024
    /\ Len(sum_result) = 2
    /\ sum_result[1].year = 2024 /\ sum_result[2].year = 2026

(***************************************************************************)
(* Claims about filter_activities (SpecFilter).                            *)
(***************************************************************************)
\* The list filtered by one argument alone, the others not supplied.
Alone(c, which) ==
    filter_activities(
        c.activities,
        IF which = "type" THEN c.activity_type ELSE NoText,
        IF which = "start" THEN c.start_date ELSE Omitted,
        IF which = "end" THEN c.end_date ELSE Omitted,
        IF which = "min" THEN c.min_distance ELSE Omitted,
        IF which = "max" THEN c.max_distance ELSE Omitted,
        IF which = "search" THEN c.search_query ELSE <<>>,
        c.offset)

Arguments == {"type", "start", "end", "min", "max", "search"}

Elements(s) == {s[i] : i \in DOMAIN s}

InEveryAlone(i) == \A which \in Arguments : i \in Elements(Alone(flt_call, which))

NothingSupplied(c) ==
    /\ c.activity_type = NoText
    /\ c.start_date = Omitted /\ c.end_date = Omitted
    /\ c.min_distance = Omitted /\ c.max_distance = Omitted
    /\ c.search_query = <<>>

\* C30: filter_activities returns the activities of the input that are in
\* the result of filtering by each supplied predicate alone, in their order
\* in the input; with no predicate supplied it returns the input.
C30_Conjunctive ==
    flt_call.called =>
        /\ flt_result = SelectSeq(flt_call.activities, InEveryAlone)
        /\ NothingSupplied(flt_call) => flt_result = flt_call.activities

\* Filtering by type "Run" alone keeps two activities, by a minimum of
\* 10 km alone keeps two, and by both keeps the one they share.
C30_Witness ==
    /\ flt_call.called
    /\ flt_call.activities = <<103, 102, 101>>
    /\ flt_call.activity_type = T_Run
    /\ flt_call.min_distance = 10 * MetresPerKm
    /\ flt_call.max_distance = Omitted
    /\ Alone(flt_call, "type") = <<103, 101>>
    /\ Alone(flt_call, "min") = <<103, 102>>
    /\ flt_result = <<103>>

(***************************************************************************)
(* Claims about parse_date_range (SpecDates).                              *)
(***************************************************************************)
\* The first second of a written date, in the process's local time.
FirstSecond(v, offset) ==
    86400 * (DaysToEpochYear + DaysBeforeYear(v.year)
             + DaysBeforeMonth(v.year, v.month) + v.day - 1) - offset

\* The bounds of two written dates.
BoundsOf(c) ==
    /\ dr_result[1] = FirstSecond(c.start, c.offset)
    /\ dr_result[2] = FirstSecond(c.end, c.offset) + 86399
    /\ (c.start.year = c.end.year /\ c.start.month = c.end.month
           /\ c.start.day = c.end.day)
          => /\ dr_result[2] = dr_result[1] + 86399
             /\ dr_result[2] - dr_result[1] + 1 = 86400

BothValid(c) == c.called /\ c.start.kind = "valid" /\ c.end.kind = "valid"

Earliest(v) == v.year = 1 /\ v.month = 1 /\ v.day = 1

C32_NoBoundOnBadInput ==
    dr_call.called =>
        /\ Len(dr_result) = 2
        /\ "unparseable" \in {dr_call.start.kind, dr_call.end.kind}
               => dr_result = <<Omitted, Omitted>>
        /\ dr_call.start.kind = "absent" =>
               /\ dr_result[1] = Omitted
               /\ (dr_call.end.kind = "valid" /\ ~Earliest(dr_call.end))
                      => dr_result[2] # Omitted
        /\ dr_call.end.kind = "absent" =>
               /\ dr_result[2] = Omitted
               /\ (dr_call.start.kind = "valid" /\ ~Earliest(dr_call.start))
                      => dr_result[1] # Omitted

\* A valid start date with 31 April as end date: both bounds are dropped.
C32_Witness ==
    /\ dr_call.called
    /\ dr_call.start = ValidDate(2024, 1, 1)
    /\ dr_call.end = Unparseable(DateText(2024, 4, 31))
    /\ dr_result = <<Omitted, Omitted>>

(***************************************************************************)
(* Claims about the page requests of fetch_all_activities (SpecFetch).     *)
(***************************************************************************)
PageRequested == requests' = requests + 1

\* C33, as claimed: every page request asks for per_page 200 and page 1
\* and carries no after bound; the first request of a run carries no
\* before cursor and every later request carries the cursor taken from the
\* last record of the preceding page.
C33_CursorOnlyAsClaimed ==
    [][PageRequested =>
          /\ last_params'.per_page = 200
          /\ last_params'.page = 1
          /\ last_params'.after = Omitted
          /\ last_params'.before = IF requests = 0 THEN Omitted ELSE before]_vars

\* What holds: the size, the page and the absence of an after bound in
\* every request, no cursor in the first, and the cursor of the preceding
\* page in a later request unless that cursor is 0.
C33_CursorUnlessZero ==
    [][PageRequested =>
          /\ last_params'.per_page = 200
          /\ last_params'.page = 1
          /\ last_params'.after = Omitted
          /\ requests = 0 => last_params'.before = Omitted
          /\ (requests > 0 /\ before # 0) => last_params'.before = before
          /\ (requests > 0 /\ before = 0) => last_params'.before = Omitted]_vars

\* A later request that carries no cursor: the cursor is 0.
C33_LaterRequestWithoutCursor ==
    /\ requests >= 2
    /\ fpc = "loop"
    /\ before = 0
    /\ last_params.before = Omitted

(***************************************************************************)
(* Claims about recovery after retried failures (SpecClient).              *)
(***************************************************************************)
Is2xx(r) == IsResponse(r) /\ r.status >= 200 /\ r.status <= 299

\* The call has made k <= 3 attempts, the first k - 1 met a 5xx, a timeout
\* or a connection failure and attempt k received a 2xx response.
RecoveredAt(k) ==
    /\ k \in 1..3
    /\ Len(trace) = k
    /\ \A i \in 1..(k - 1) : IsTransient(trace[i])
    /\ Is2xx(trace[k])

\* C34, as claimed: when attempts 1..k-1 (k <= 3) each failed with a 5xx, a
\* timeout or a connection failure and attempt k receives a 2xx response,
\* the call returns the decoded body of attempt k and raises no error.
C34_RecoversAsClaimed ==
    \A k \in 1..3 :
        RecoveredAt(k) =>
            /\ cpc = "done"
            /\ outcome = Returned(trace[k].body)

\* What the client does do: the same, when the 2xx response carries both
\* rate-limit headers with two fields each and a JSON body.
C34_RecoversWithHeaders ==
    \A k \in 1..3 :
        (/\ RecoveredAt(k)
         /\ Len(Split(HeaderGet(trace[k].limit, <<>>))) >= 2
         /\ Len(Split(HeaderGet(trace[k].usage, <<>>))) >= 2
         /\ trace[k].json)
            => /\ cpc = "done"
               /\ outcome = Returned(trace[k].body)

\* Two retried failures, then a 200 whose body is returned.
C34_RecoveredOnThird ==
    /\ RecoveredAt(3)
    /\ trace[3].limit = WellFormedRate /\ trace[3].usage = WellFormedRate
    /\ outcome = Returned("bodyB")

\* Two retried failures, then a 200 without X-RateLimit-Usage: IndexError.
C34_RecoveryLost ==
    /\ RecoveredAt(3)
    /\ trace[3].json
    /\ ~trace[3].usage.present
    /\ outcome.exc = "IndexError"

(***************************************************************************)
(* Claims about the cache after a failed request (SpecRoute).              *)
(***************************************************************************)
CachedRoutes == {"activities", "activity", "stats"}

\* The request just handled missed the cache and then met a failure of the
\* upstream call (list, detail), of the pagination sweep or of the
\* aggregation (stats).
FailedOnMiss ==
    /\ request'.route \in CachedRoutes
    /\ ~request'.hit
    /\ request'.upstream >= 1
    /\ \/ request'.exc \in UpstreamFaults
       \/ request'.route = "stats" /\ request'.exc = ComputeError

\* C35: when the upstream call, the pagination sweep or the aggregation
\* fails during a cache-miss request for the activity list, an activity's
\* detail or the statistics, the cache content after the request equals its
\* content before, and the request is answered with an error.
C35_FailureWritesNothing ==
    [][FailedOnMiss => (cache' = cache /\ response'.kind = "error")]_vars

\* A statistics request whose aggregation failed after the sweep, with an
\* activity list in the cache: nothing is stored under the stats key.
C35_Witness ==
    /\ request.route = "stats"
    /\ request.exc = ComputeError
    /\ request.upstream >= 1
    /\ response.kind = "error"
    /\ cache # {}
    /\ CacheGet(cache, StatsKey) = None

(***************************************************************************)
(* Claims about the cache shared by two athletes (SpecShare).              *)
(***************************************************************************)
\* The athlete id written in a key: its second field between colons.
KeyAthlete(key) == SplitOn(key, ":")[2]

\* C36: for any interleaving of the requests of two athletes A # B to the
\* list, detail and stats routes, every value returned to B was fetched
\* with B's token, and every key read while serving B carries B's athlete
\* id and differs from every key written while serving A.
C36_NoCrossAthleteRead ==
    \A a \in Athletes, b \in Athletes :
        a # b =>
            /\ \A v \in sh_served[b] : v.owner = b
            /\ \A k \in sh_read[b] :
                   /\ Len(SplitOn(k, ":")) = 4
                   /\ KeyAthlete(k) = Str(b)
                   /\ k \notin sh_written[a]

\* Athlete 12 is answered from the cache while athlete 1's list, detail and
\* stats entries, written between 12's requests, are in the cache as well.
C36_Witness ==
    /\ \E e \in sh_cache : e.value.owner = 1 /\ e.value.kind = "stats"
    /\ \E e \in sh_cache : e.value.owner = 1 /\ e.value.kind = "activity"
    /\ Cardinality(sh_written[1]) = 3
    /\ Cardinality(sh_read[12]) = 3
    /\ sh_pending[1] # NoPending
    /\ \E v \in sh_served[12] :
           /\ v.kind = "stats"
           /\ \E e \in sh_cache : e.value = v

(***************************************************************************)
(* Claims about disabled accounts and the admin operations (SpecAdmin).    *)
(***************************************************************************)
\* The session carries the user_id of an account whose is_disabled is set.
DisabledSession(s) ==
    /\ ad_session[s] # NoUser
    /\ ad_users[ad_session[s]].exists
    /\ ad_users[ad_session[s]].is_disabled

\* The decorator of the request of session s is evaluated in this step.
Guarded(s) == ad_pc[s].stage = "guard" /\ ad_pc'[s] # ad_pc[s]

\* C37: a request of a session whose user's is_disabled is set, to a route
\* guarded by requires_auth, requires_strava or requires_admin, is
\* redirected without its handler being run and leaves the session without
\* user_id; a session without user_id is redirected as well, so that the
\* user is turned away until the flag is unset and the user logs in again.
C37_DisabledTurnedAway ==
    [][\A s \in Sessions :
          Guarded(s) =>
              /\ DisabledSession(s) =>
                     /\ ad_pc'[s].stage = "idle"
                     /\ ad_pc'[s].route \in {"login", "index"}
                     /\ ad_session'[s] = NoUser
              /\ ad_session[s] = NoUser =>
                     /\ ad_pc'[s] = TurnedAway("login", FALSE)
                     /\ ad_session'[s] = NoUser
              /\ ad_pc'[s].stage = "handler" =>
                     /\ ad_session[s] # NoUser
                     /\ ~ad_users[ad_session[s]].is_disabled]_vars

\* Both sessions of user 2, disabled by user 1 after they logged in, have
\* been turned away with their user_id cleared, one by requires_strava or
\* requires_auth and one by requires_admin.
C37_Witness ==
    /\ ad_users[2].exists /\ ad_users[2].is_disabled
    /\ ad_pc["s1"] = TurnedAway("login", TRUE)
    /\ ad_pc["s2"] = TurnedAway("index", TRUE)
    /\ \A s \in Sessions : ad_session[s] = NoUser

NonDisabledAdmin ==
    \E u \in UserIds :
        ad_users[u].exists /\ ad_users[u].is_admin /\ ~ad_users[u].is_disabled

\* C38, as claimed: starting with a non-disabled admin, after any sequence
\* and any interleaving of toggle-disable, delete and toggle-admin requests
\* of logged-in admins a non-disabled admin account still exists.
C38_AnAdminRemainsAsClaimed == NonDisabledAdmin

\* What holds: a non-disabled admin remains as long as no two requests
\* have been in flight together.
C38_AnAdminRemainsWhenSerial == ~ad_overlap => NonDisabledAdmin

\* Both accounts are disabled admins: nobody can use an admin route.
C38_NoAdminLeft ==
    /\ \A u \in UserIds : ad_users[u].exists /\ ad_users[u].is_disabled
    /\ \A s \in Sessions : ad_pc[s].stage = "idle"

(***************************************************************************)
(* Claims about the Google OAuth state (SpecOAuth).                        *)
(***************************************************************************)
\* The latest callback exchanged its code.
Exchanged == oa_last.outcome \in {"logged_in", "login_failed"}

\* C39, as claimed: google_callback exchanges the code and logs the user in
\* only when the state of the callback equals a state that a preceding
\* google_authorize stored in the same session; a callback into a session
\* with no stored state is rejected, and the first callback consumes the
\* stored state.
C39_StateRequiredAsClaimed ==
    /\ Exchanged =>
           /\ oa_last.state \in oa_issued[oa_last.session]
           /\ oa_last.state = oa_last.stored
    /\ (oa_last.outcome # "none" /\ oa_last.stored = Missing) => ~Exchanged
    /\ oa_last.outcome \notin {"none", "error"} => oa_last.left = Missing

\* What holds: the code is exchanged only when the state of the callback
\* equals what the session holds, a state stored by google_authorize in
\* that session or nothing on both sides; a callback that carries a state
\* is rejected in a session with no stored state; a callback without an
\* error parameter leaves no stored state.
C39_StateMatches ==
    /\ Exchanged =>
           /\ oa_last.state = oa_last.stored
           /\ oa_last.state # Missing => oa_last.state \in oa_issued[oa_last.session]
    /\ (oa_last.outcome # "none" /\ oa_last.stored = Missing
            /\ oa_last.state # Missing) => ~Exchanged
    /\ oa_last.outcome \notin {"none", "error"} => oa_last.left = Missing

\* A callback without state parameter, into a session in which
\* google_authorize never stored a state, has logged user 1 in.
C39_LoggedInWithoutState ==
    /\ oa_last.outcome = "logged_in"
    /\ oa_last.state = Missing
    /\ oa_issued[oa_last.session] = {}
    /\ oa_user[oa_last.session] = 1

(***************************************************************************)
(* Claims about get_valid_token (SpecToken).                               *)
(***************************************************************************)
\* The latest call was made for a linked user whose stored expiry was in
\* the past.
MetExpired ==
    /\ tk_last.called
    /\ tk_last.who = "linked"
    /\ token_expired(tk_last.met.expires_at, tk_last.now)

\* C40, as claimed: the stored access token is returned only while its
\* expires_at is not in the past; when it is expired and the refresh
\* succeeds the refreshed access token is returned and the stored access
\* token, refresh token and expiry are the refreshed values; when the
\* refresh fails None is returned and the stored tokens are unchanged.
C40_RefreshAsClaimed ==
    /\ (tk_last.called /\ tk_last.who = "linked" /\ ~MetExpired) =>
           /\ tk_last.outcome = "token"
           /\ tk_last.token = tk_last.met.access_token
           /\ ~tk_last.refreshed
    /\ (MetExpired /\ Granted(tk_last.resp)) =>
           /\ tk_last.outcome = "token"
           /\ tk_last.token = tk_last.data.access_token
           /\ tk_stored = tk_last.data
    /\ (MetExpired /\ ~Granted(tk_last.resp)) =>
           /\ tk_last.outcome = "None"
           /\ tk_stored = tk_last.met

\* What holds: an unexpired stored token is returned without a refresh; a
\* refresh that fails gives None; a refresh that is granted ends the call
\* with ImportError; the stored tokens are never changed.
C40_NeverSaved ==
    /\ tk_last.called => tk_stored = tk_last.met
    /\ (tk_last.called /\ tk_last.who = "linked" /\ ~MetExpired) =>
           /\ tk_last.outcome = "token"
           /\ tk_last.token = tk_last.met.access_token
           /\ ~tk_last.refreshed
    /\ (MetExpired /\ Granted(tk_last.resp)) =>
           /\ tk_last.outcome = "raised"
           /\ tk_last.exc = "ImportError"
    /\ (MetExpired /\ ~Granted(tk_last.resp)) => tk_last.outcome = "None"

\* The endpoint has granted two refreshes and the row still holds the
\* tokens of the day the account was linked.
C40_RefreshedTokensLost ==
    /\ MetExpired
    /\ tk_issued = 2
    /\ tk_last.exc = "ImportError"
    /\ tk_stored.access_token = 0

====
